---------------------------- MODULE Spec2Model ----------------------------
(***************************************************************************)
(* Model of the nesting engine (src/nester/engine/core.py):                *)
(*   - the fabric packer      compute_layout / _pack_ffdh / _compact_layout *)
(*   - the marker segmenter   build_markers_from_layout                     *)
(*   - the tube planner       compute_tube_plan / pack_bfd / ...            *)
(* All dimensions are integer millimetres.  On integers the tolerances of  *)
(* the code (1e-9, 1e-6, BOUNDARY_EPS, 0.5) turn a comparison              *)
(* "a <= b + eps" into "a <= b" and "a <= b - eps" into "a < b".           *)
(***************************************************************************)
EXTENDS Integers, Sequences, FiniteSets, TLC

VARIABLES
    \* ---- compute_layout ----
    lay_pc,          \* position inside compute_layout
    blinds,          \* the caller's piece list, a sequence of <<w, h>>
    rep,             \* the caller's list is `blinds * rep` (Python list repetition)
    roll_width_mm,
    gap_mm,
    sorted_blinds,   \* `blinds` after the area/width/drop sort of compute_layout
    next_i,          \* number of pieces the loop of _pack_ffdh has consumed
    placements,      \* sequence of Placement records
    shelves,         \* sequence of shelf records [x0, height, used_y]
    lay_error,       \* "none", "ValueError" or "AssertionError"
    lay_result,      \* the dictionary compute_layout returns
    \* ---- build_markers_from_layout / clear_marker_cache ----
    mk_pc,           \* position inside build_markers_from_layout
    mk_placements,   \* argument: the placement list
    mk_roll_width,   \* argument: roll_width_mm
    mk_batch_id,     \* argument: batch_id
    mk_roll_length,  \* argument: roll_length_mm
    marker_cache,    \* _marker_cache: cache key -> marker list
    mk_buckets,      \* buckets: marker index -> placements
    mk_processed,    \* processed_buckets: marker index -> placements
    mk_markers,      \* the marker list the call returns
    mk_cache_was_empty, \* the cache held nothing when the call started
    mk_calls,        \* number of calls started so far
    \* ---- compute_tube_plan ----
    tb_pc,           \* position inside compute_tube_plan
    tb_items,        \* argument: the list of <<width_mm, qty>>
    tb_stock,        \* argument: stock_length_mm
    tb_kerf,         \* argument: kerf_mm
    tb_pieces,       \* pieces: the valid pieces, expanded by quantity
    tb_infeasible,   \* infeasible: the rejected widths with their reason
    tb_sorted,       \* pieces_sorted
    tb_next,         \* number of pieces the loop of pack_bfd has consumed
    tb_open,         \* pack_bfd's list of open tubes [pieces, used]
    tb_tubes,        \* tubes: the list of TubeCut
    tb_plan,         \* the TubePlan returned
    \* ---- the host endpoint `efficiency` and compute_efficiency ----
    ef_pc,           \* position inside the request
    req_lines,       \* request body: the lines, records [width_mm, drop_mm, qty]
    req_widths,      \* request body: available_widths_mm (None and [] are both <<>>)
    api_status,      \* HTTP status of the answer, 0 while the request is running
    ef_roll_width,   \* roll_width_mm chosen by compute_efficiency
    ef_next,         \* number of lines compute_layout_per_line has packed
    ef_layouts,      \* `results` of compute_layout_per_line
    ef_results,      \* `results` of compute_efficiency
    ef_totals,       \* `totals` of compute_efficiency
    ef_error,        \* "none" or the exception the engine raised
    ef_pack_calls,   \* number of calls of compute_layout made for the request
    \* ---- workers sharing the marker cache ----
    wk_pc,           \* worker -> position inside build_markers_from_layout
    wk_placements,   \* worker -> argument: the placement list
    wk_batch_id,     \* worker -> argument: batch_id
    wk_markers,      \* worker -> the marker list returned
    wk_error,        \* worker -> "none" or the exception raised
    wk_clears,       \* number of clear_marker_cache calls made so far
    \* ---- a single call of one function of the engine ----
    fn_pc,           \* "idle", "call", "returned" or a point between two calls
    fn_args,         \* the arguments of the call
    fn_result        \* the value returned

layVars == <<lay_pc, blinds, rep, roll_width_mm, gap_mm, sorted_blinds, next_i,
             placements, shelves, lay_error, lay_result>>

mkVars == <<mk_pc, mk_placements, mk_roll_width, mk_batch_id, mk_roll_length,
            marker_cache, mk_buckets, mk_processed, mk_markers,
            mk_cache_was_empty, mk_calls>>

tbVars == <<tb_pc, tb_items, tb_stock, tb_kerf, tb_pieces, tb_infeasible,
            tb_sorted, tb_next, tb_open, tb_tubes, tb_plan>>

efVars == <<ef_pc, req_lines, req_widths, api_status, ef_roll_width, ef_next,
            ef_layouts, ef_results, ef_totals, ef_error, ef_pack_calls>>

wkVars == <<wk_pc, wk_placements, wk_batch_id, wk_markers, wk_error, wk_clears>>

fnVars == <<fn_pc, fn_args, fn_result>>

vars == <<layVars, mkVars, tbVars, efVars, wkVars, fnVars>>

-----------------------------------------------------------------------------
(* Generic helpers *)

Max2(a, b) == IF a >= b THEN a ELSE b
Min2(a, b) == IF a <= b THEN a ELSE b
Abs(a) == IF a < 0 THEN -a ELSE a

RECURSIVE SeqSum(_)
SeqSum(s) == IF s = <<>> THEN 0 ELSE Head(s) + SeqSum(Tail(s))

RECURSIVE SeqMax(_)
\* max() of a non-empty sequence of integers
SeqMax(s) == IF Len(s) = 1 THEN s[1] ELSE Max2(Head(s), SeqMax(Tail(s)))

RECURSIVE SeqMin(_)
SeqMin(s) == IF Len(s) = 1 THEN s[1] ELSE Min2(Head(s), SeqMin(Tail(s)))

\* All sequences over S of length 0..n
SeqsUpTo(S, n) == UNION {[1..k -> S] : k \in 0..n}

RECURSIVE SortedSeqOf(_)
\* sorted(S) for a finite set of integers
SortedSeqOf(S) ==
    IF S = {} THEN <<>>
    ELSE LET m == CHOOSE x \in S : \A y \in S : x <= y
         IN  <<m>> \o SortedSeqOf(S \ {m})

RECURSIVE LexLess(_, _)
\* a < b for two tuples of integers of equal length (Python tuple order)
LexLess(a, b) ==
    IF a = <<>> THEN FALSE
    ELSE IF Head(a) # Head(b) THEN Head(a) < Head(b)
    ELSE LexLess(Tail(a), Tail(b))

-----------------------------------------------------------------------------
(* Bounds of the model and constants of the program *)

MaxLen == 3                 \* longest piece list handed to compute_layout
MAX_PIECES == 100000        \* core.py:322
MAX_WIDTH_MM == 3200        \* core.py:326
MAX_DROP_MM == 5000         \* core.py:328

\* Pieces the caller may pass: the valid ones and one of each invalid kind.
PieceDomain ==
    ({1, 2, 3} \X {1, 2, 3})
      \cup {<<0, 1>>, <<1, 0>>, <<MAX_WIDTH_MM + 1, 1>>, <<1, MAX_DROP_MM + 1>>}
RollWidths == {2, 4}
Gaps == {-1, 0, 1}

\* the segmenter before any call: an empty process-wide cache
MarkersIdle ==
    /\ mk_pc = "idle"
    /\ mk_placements = <<>>
    /\ mk_roll_width = 0
    /\ mk_batch_id = 0
    /\ mk_roll_length = 0
    /\ marker_cache = <<>>
    /\ mk_buckets = <<>>
    /\ mk_processed = <<>>
    /\ mk_markers = <<>>
    /\ mk_cache_was_empty = TRUE
    /\ mk_calls = 0

EmptyPlan ==
    [total_pieces |-> 0, num_tubes |-> 0, stock_length_mm |-> 0, kerf_mm |-> 0,
     efficiency |-> <<0, 1>>, total_used_mm |-> 0, total_waste_mm |-> 0,
     tubes |-> <<>>, patterns |-> <<>>, infeasible_pieces |-> <<>>]

\* compute_tube_plan is not running
TubesIdle ==
    /\ tb_pc = "idle"
    /\ tb_items = <<>>
    /\ tb_stock = 0
    /\ tb_kerf = 0
    /\ tb_pieces = <<>>
    /\ tb_infeasible = <<>>
    /\ tb_sorted = <<>>
    /\ tb_next = 0
    /\ tb_open = <<>>
    /\ tb_tubes = <<>>
    /\ tb_plan = EmptyPlan

\* no request is being served
EfficiencyIdle ==
    /\ ef_pc = "idle"
    /\ req_lines = <<>>
    /\ req_widths = <<>>
    /\ api_status = 0
    /\ ef_roll_width = 0
    /\ ef_next = 0
    /\ ef_layouts = <<>>
    /\ ef_results = <<>>
    /\ ef_totals = [eff_pct |-> 0]
    /\ ef_error = "none"
    /\ ef_pack_calls = 0

\* no single function is being called
FnIdle ==
    /\ fn_pc = "idle"
    /\ fn_args = <<>>
    /\ fn_result = <<>>

\* no worker exists
WorkersIdle ==
    /\ wk_pc = <<>>
    /\ wk_placements = <<>>
    /\ wk_batch_id = <<>>
    /\ wk_markers = <<>>
    /\ wk_error = <<>>
    /\ wk_clears = 0

-----------------------------------------------------------------------------
(* compute_layout: the sort of line 304 *)

\* key(a) < key(b) for key = (-(w*h), -w, -h)
AreaKeyLess(a, b) ==
    \/ a[1] * a[2] > b[1] * b[2]
    \/ a[1] * a[2] = b[1] * b[2] /\ a[1] > b[1]
    \/ a[1] * a[2] = b[1] * b[2] /\ a[1] = b[1] /\ a[2] > b[2]

RECURSIVE InsertByArea(_, _)
\* stable insertion: x goes before the first element with a strictly larger key
InsertByArea(x, s) ==
    IF s = <<>> THEN <<x>>
    ELSE IF AreaKeyLess(x, Head(s)) THEN <<x>> \o s
    ELSE <<Head(s)>> \o InsertByArea(x, Tail(s))

RECURSIVE InsertByAreaOnly(_, _)
InsertByAreaOnly(x, s) ==
    IF s = <<>> THEN <<x>>
    ELSE IF x[1] * x[2] > Head(s)[1] * Head(s)[2] THEN <<x>> \o s
    ELSE <<Head(s)>> \o InsertByAreaOnly(x, Tail(s))

RECURSIVE SortByArea_AreaOnly(_)
\* a sort on the area alone: pieces of equal area stay in the caller's order
SortByArea_AreaOnly(s) ==
    IF s = <<>> THEN <<>>
    ELSE InsertByAreaOnly(s[Len(s)], SortByArea_AreaOnly(SubSeq(s, 1, Len(s) - 1)))

RECURSIVE SortByArea(_)
\* sorted(blinds, key=lambda t: (-(t[0]*t[1]), -t[0], -t[1]))
SortByArea(s) ==
    IF s = <<>> THEN <<>>
    ELSE InsertByArea(s[Len(s)], SortByArea(SubSeq(s, 1, Len(s) - 1)))

\* the "hard limits" loop of compute_layout, lines 325-331
PieceWithinLimits(p) ==
    /\ ~(p[1] > MAX_WIDTH_MM)
    /\ ~(p[2] > MAX_DROP_MM)
    /\ ~(p[1] <= 0 \/ p[2] <= 0)

EmptyResult ==
    [placements |-> <<>>, used_length_mm |-> 0, utilization |-> <<0, 1>>,
     levels |-> 0]


-----------------------------------------------------------------------------
(* _pack_ffdh: best-fit shelf choice, lines 150-189 *)

\* gap_mm = max(0.0, float(gap_mm)), line 133
PackGap(gap) == Max2(0, gap)

\* need_y, line 164
NeedY(s, w, gap) == IF s.used_y = 0 THEN w ELSE gap + w

\* the shelf is a candidate for the piece, lines 160-166
ShelfFits(s, w, h, roll, gap) ==
    /\ ~(h > s.height)
    /\ NeedY(s, w, gap) <= roll - s.used_y

\* leftover, line 167
Leftover(s, w, roll, gap) == (roll - s.used_y) - NeedY(s, w, gap)

\* a packer that takes the first shelf the piece fits on, whatever it leaves
BestShelf_FirstFit(sh, w, h, roll, gap) ==
    LET cand == {k \in 1..Len(sh) : ShelfFits(sh[k], w, h, roll, gap)}
    IN  IF cand = {} THEN 0
        ELSE CHOOSE k \in cand : \A j \in cand : k <= j

\* 1-based index of the shelf `best` of lines 157-169, 0 when best is None:
\* the least leftover, the first such shelf winning (the update is strict "<")
BestShelf(sh, w, h, roll, gap) ==
    LET cand == {k \in 1..Len(sh) : ShelfFits(sh[k], w, h, roll, gap)}
    IN  IF cand = {} THEN 0
        ELSE CHOOSE k \in cand :
               \A j \in cand :
                  \/ Leftover(sh[k], w, roll, gap) < Leftover(sh[j], w, roll, gap)
                  \/ /\ Leftover(sh[k], w, roll, gap) = Leftover(sh[j], w, roll, gap)
                     /\ k <= j

Placement(x, y, w, h, level, item_id) ==
    [x |-> x, y |-> y, w |-> w, h |-> h, level |-> level, item_id |-> item_id,
     line_id |-> 1]

\* y of a piece put on an existing shelf, line 174
YOnShelf(s, gap) == IF s.used_y = 0 THEN 0 ELSE s.used_y + gap

\* the shelf after the piece was added, line 176
ShelfAfterPlace(s, w, gap) ==
    [s EXCEPT !.used_y = s.used_y + (IF YOnShelf(s, gap) = 0 THEN w ELSE gap + w)]

\* a packer that forgets the height of the previous shelf when it opens one
NewShelfX0_NoHeight(sh, gap) ==
    IF sh = <<>> THEN 0 ELSE sh[Len(sh)].x0 + gap

\* x0 of a newly opened shelf, line 183
NewShelfX0(sh, gap) ==
    IF sh = <<>> THEN 0 ELSE sh[Len(sh)].x0 + sh[Len(sh)].height + gap

\* One iteration of the loop of lines 150-189 after the size check of line 151,
\* for the piece <<w, h>> with index idx: the new placements and shelves.
PlaceOne(ps, sh, idx, w, h, roll, gap) ==
    LET b == BestShelf(sh, w, h, roll, gap)
    IN  IF b # 0
        THEN [p |-> Append(ps, Placement(sh[b].x0, YOnShelf(sh[b], gap), w, h, b - 1, idx)),
              s |-> [sh EXCEPT ![b] = ShelfAfterPlace(sh[b], w, gap)]]
        ELSE [p |-> Append(ps, Placement(NewShelfX0(sh, gap), 0, w, h, Len(sh), idx)),
              s |-> Append(sh, [x0 |-> NewShelfX0(sh, gap), height |-> h, used_y |-> w])]

-----------------------------------------------------------------------------
(* _pack_ffdh: the final invariant pass, lines 191-207 *)

RECURSIVE InsertByY(_, _, _)
\* stable insertion of placement index i into the index list s ordered by y
InsertByY(ps, i, s) ==
    IF s = <<>> THEN <<i>>
    ELSE IF ps[i].y < ps[Head(s)].y THEN <<i>> \o s
    ELSE <<Head(s)>> \o InsertByY(ps, i, Tail(s))

RECURSIVE LevelOrderUpTo(_, _, _)
LevelOrderUpTo(ps, lvl, n) ==
    IF n = 0 THEN <<>>
    ELSE IF ps[n].level = lvl
         THEN InsertByY(ps, n, LevelOrderUpTo(ps, lvl, n - 1))
         ELSE LevelOrderUpTo(ps, lvl, n - 1)

\* indices of the placements of level lvl, sorted by y (a stable sort)
LevelOrder(ps, lvl) == LevelOrderUpTo(ps, lvl, Len(ps))

\* no two neighbours of a level overlap in Y, lines 204-207
NoOverlapOnLevel(ps, lvl) ==
    LET ord == LevelOrder(ps, lvl)
    IN  \A k \in 1..(Len(ord) - 1) :
           ps[ord[k]].y + ps[ord[k]].w <= ps[ord[k + 1]].y

\* TRUE iff none of the assertions of lines 192-207 fires
PackInvariantsHold(ps, sh, roll) ==
    /\ \A i \in 1..Len(ps) : ~(ps[i].y + ps[i].w > roll)
    /\ \A k \in 1..Len(sh) :
          /\ \A i \in 1..Len(ps) :
                ps[i].level = k - 1 =>
                   ~(ps[i].h > sh[k].height \/ Abs(ps[i].x - sh[k].x0) > 0)
          /\ NoOverlapOnLevel(ps, k - 1)

-----------------------------------------------------------------------------
(* _compact_layout, lines 212-282 *)

RECURSIVE PosIn(_, _)
\* 1-based position of i in the sequence s (i occurs in s)
PosIn(s, i) == IF Head(s) = i THEN 1 ELSE 1 + PosIn(Tail(s), i)

RECURSIVE CursorBefore_NoGap(_, _, _, _)
\* a left shift that re-lays the pieces of a shelf without the gap between them
CursorBefore_NoGap(ps, ord, k, gap_y) ==
    IF k = 1 THEN 0
    ELSE CursorBefore_NoGap(ps, ord, k - 1, gap_y) + ps[ord[k - 1]].w

RECURSIVE CursorBefore(_, _, _, _)
\* cursor_y when the k-th placement of the sorted level list is reached, line 237
CursorBefore(ps, ord, k, gap_y) ==
    IF k = 1 THEN 0
    ELSE CursorBefore(ps, ord, k - 1, gap_y) + ps[ord[k - 1]].w + gap_y

\* cursor_y after the loop of lines 236-242 (no gap after the last piece)
CursorEnd(ps, ord, gap_y) ==
    CursorBefore(ps, ord, Len(ord), gap_y) + ps[ord[Len(ord)]].w

\* the placement list after the intra-shelf left shift, lines 227-242
LeftShiftPlacements(ps, gap_y) ==
    [i \in 1..Len(ps) |->
        LET ord == LevelOrder(ps, ps[i].level)
            desired_y == CursorBefore(ps, ord, PosIn(ord, i), gap_y)
        IN  IF Abs(ps[i].y - desired_y) > 0
            THEN [ps[i] EXCEPT !.y = desired_y]
            ELSE ps[i]]

\* the shelves after the intra-shelf left shift, line 244
LeftShiftShelves(ps, sh, roll, gap_y) ==
    [k \in 1..Len(sh) |->
        IF \E i \in 1..Len(ps) : ps[i].level = k - 1
        THEN [sh[k] EXCEPT !.used_y = Min2(roll, CursorEnd(ps, LevelOrder(ps, k - 1), gap_y))]
        ELSE sh[k]]

\* the merge condition of lines 251-254 for the 1-based shelves k and k+1
Connector(s1, s2, gap_y) == IF s1.used_y > 0 /\ s2.used_y > 0 THEN gap_y ELSE 0

\* a compactor that merges equal-height shelves without the width check
CanMerge_NoWidthCheck(s1, s2, roll, gap_y) == Abs(s1.height - s2.height) <= 0

CanMerge(s1, s2, roll, gap_y) ==
    /\ Abs(s1.height - s2.height) <= 0
    /\ s1.used_y + Connector(s1, s2, gap_y) + s2.used_y <= roll

RECURSIVE StartYAt(_, _, _, _, _)
\* start_y when the loop of lines 258-262 reaches placement n; lvl is the
\* (0-based) level being moved and start0 the value of line 256
StartYAt(ps, n, lvl, start0, gap_y) ==
    IF n = 1 THEN start0
    ELSE LET prev == StartYAt(ps, n - 1, lvl, start0, gap_y)
         IN  IF ps[n - 1].level = lvl
             THEN prev + ps[n - 1].w + (IF prev > 0 THEN gap_y ELSE 0)
             ELSE prev

\* placements after merging 1-based shelf k+1 into shelf k, lines 256-277
MergePlacements(ps, sh, k, gap_y) ==
    LET s1 == sh[k]
        s2 == sh[k + 1]
        start0 == s1.used_y + Connector(s1, s2, gap_y)
        moved == [n \in 1..Len(ps) |->
                    IF ps[n].level = k
                    THEN [ps[n] EXCEPT !.x = s1.x0,
                                       !.y = StartYAt(ps, n, k, start0, gap_y),
                                       !.level = k - 1]
                    ELSE ps[n]]
    IN  [n \in 1..Len(ps) |->
            LET lvl == IF moved[n].level > k THEN moved[n].level - 1 ELSE moved[n].level
            IN  [moved[n] EXCEPT !.level = lvl,
                                 !.x = IF lvl # k - 1 THEN moved[n].x ELSE s1.x0]]

\* shelves after merging 1-based shelf k+1 into shelf k, lines 265-271
MergeShelves(ps, sh, k, roll, gap_y) ==
    LET s1 == sh[k]
        s2 == sh[k + 1]
        start0 == s1.used_y + Connector(s1, s2, gap_y)
        delta_x == s2.height + gap_y
        endY == StartYAt(ps, Len(ps) + 1, k, start0, gap_y)
    IN  [j \in 1..(Len(sh) - 1) |->
            IF j < k THEN sh[j]
            ELSE IF j = k THEN [s1 EXCEPT !.used_y = Min2(roll, endY)]
            ELSE [sh[j + 1] EXCEPT !.x0 = sh[j + 1].x0 - delta_x]]

RECURSIVE MergeLoop(_, _, _, _, _)
\* the while loop of lines 247-280, from the 1-based shelf k on
MergeLoop(ps, sh, k, roll, gap_y) ==
    IF ~(k < Len(sh)) THEN [p |-> ps, s |-> sh]
    ELSE IF CanMerge(sh[k], sh[k + 1], roll, gap_y)
         THEN MergeLoop(MergePlacements(ps, sh, k, gap_y),
                        MergeShelves(ps, sh, k, roll, gap_y), k, roll, gap_y)
         ELSE MergeLoop(ps, sh, k + 1, roll, gap_y)

CompactLayout(ps, sh, roll, gap_y) ==
    IF ps = <<>> \/ sh = <<>> THEN [p |-> ps, s |-> sh]
    ELSE MergeLoop(LeftShiftPlacements(ps, gap_y),
                   LeftShiftShelves(ps, sh, roll, gap_y), 1, roll, gap_y)

-----------------------------------------------------------------------------
(* compute_layout: the result, lines 338-359 *)

\* used_len, lines 338-340
UsedLen(sh) == IF sh = <<>> THEN 0 ELSE sh[Len(sh)].x0 + sh[Len(sh)].height

\* total_area, line 342
TotalArea(bl) == SeqSum([i \in 1..Len(bl) |-> bl[i][1] * bl[i][2]])

\* util = total_area / denom, lines 343-344, as a fraction <<numerator, denominator>>
Util(bl, sh, roll) ==
    LET used_len == UsedLen(sh)
        denom == IF used_len > 0 THEN roll * used_len ELSE 0
    IN  IF denom > 0 THEN <<TotalArea(bl), denom>> ELSE <<0, 1>>

\* max(0.0, min(1.0, util)), line 351, on a fraction with a positive denominator
Clamp01(u) ==
    LET m == IF u[1] > u[2] THEN <<1, 1>> ELSE u
    IN  IF m[1] < 0 THEN <<0, 1>> ELSE m

LayoutResult(bl, ps, sh, roll) ==
    [placements |-> ps, used_length_mm |-> UsedLen(sh),
     utilization |-> Clamp01(Util(bl, sh, roll)), levels |-> Len(sh)]

-----------------------------------------------------------------------------
(* compute_layout as a state machine *)

InitLayout ==
    /\ lay_pc = "start"
    /\ blinds \in SeqsUpTo(PieceDomain, MaxLen)
    /\ \/ rep = 1
       \/ rep = MAX_PIECES + 1 /\ Len(blinds) = 1
    /\ roll_width_mm \in RollWidths
    /\ gap_mm \in Gaps
    /\ sorted_blinds = <<>>
    /\ next_i = 0
    /\ placements = <<>>
    /\ shelves = <<>>
    /\ lay_error = "none"
    /\ lay_result = EmptyResult
    /\ MarkersIdle
    /\ TubesIdle
    /\ EfficiencyIdle
    /\ WorkersIdle
    /\ FnIdle

\* lines 304-319: the sort, then the empty fast path
LayoutEmpty ==
    /\ lay_pc = "start"
    /\ Len(blinds) * rep = 0
    /\ lay_pc' = "done"
    /\ sorted_blinds' = <<>>
    /\ lay_result' = EmptyResult
    /\ UNCHANGED <<blinds, rep, roll_width_mm, gap_mm, next_i, placements,
                   shelves, lay_error>>
    /\ UNCHANGED <<mkVars, tbVars, efVars, wkVars, fnVars>>

\* lines 304, 321-331: the sort, the cap on the number of pieces, the limits
LayoutValidate ==
    /\ lay_pc = "start"
    /\ Len(blinds) * rep # 0
    /\ IF Len(blinds) * rep > MAX_PIECES
       THEN /\ lay_pc' = "error"
            /\ lay_error' = "ValueError"
            /\ sorted_blinds' = <<>>
       ELSE /\ sorted_blinds' = SortByArea(blinds)
            /\ IF \A i \in 1..Len(blinds) : PieceWithinLimits(blinds[i])
               THEN lay_pc' = "pack" /\ lay_error' = lay_error
               ELSE lay_pc' = "error" /\ lay_error' = "ValueError"
    /\ UNCHANGED <<blinds, rep, roll_width_mm, gap_mm, next_i, placements,
                   shelves, lay_result>>
    /\ UNCHANGED <<mkVars, tbVars, efVars, wkVars, fnVars>>

\* a packer without the width check
WidthExceedsRoll_Never(items, roll) == FALSE

\* max_w > roll_width_mm, lines 137-139
WidthExceedsRoll(items, roll) ==
    SeqMax([i \in 1..Len(items) |-> items[i][1]]) > roll

\* _pack_ffdh, lines 129-148 (keep_input_order=True: no second sort)
PackStart ==
    /\ lay_pc = "pack"
    /\ IF WidthExceedsRoll(sorted_blinds, roll_width_mm)
       THEN lay_pc' = "error" /\ lay_error' = "ValueError"
       ELSE lay_pc' = "place" /\ lay_error' = lay_error
    /\ next_i' = 0
    /\ placements' = <<>>
    /\ shelves' = <<>>
    /\ UNCHANGED <<blinds, rep, roll_width_mm, gap_mm, sorted_blinds, lay_result>>
    /\ UNCHANGED <<mkVars, tbVars, efVars, wkVars, fnVars>>

\* one iteration of the loop of lines 150-189
PlacePiece ==
    /\ lay_pc = "place"
    /\ next_i < Len(sorted_blinds)
    /\ LET piece == sorted_blinds[next_i + 1]
           r == PlaceOne(placements, shelves, next_i, piece[1], piece[2],
                         roll_width_mm, PackGap(gap_mm))
       IN  IF piece[1] <= 0 \/ piece[2] <= 0
           THEN /\ lay_pc' = "error"
                /\ lay_error' = "ValueError"
                /\ UNCHANGED <<placements, shelves, next_i>>
           ELSE /\ placements' = r.p
                /\ shelves' = r.s
                /\ next_i' = next_i + 1
                /\ UNCHANGED <<lay_pc, lay_error>>
    /\ UNCHANGED <<blinds, rep, roll_width_mm, gap_mm, sorted_blinds, lay_result>>
    /\ UNCHANGED <<mkVars, tbVars, efVars, wkVars, fnVars>>

\* the final invariant pass of lines 191-209
PackCheck ==
    /\ lay_pc = "place"
    /\ next_i = Len(sorted_blinds)
    /\ IF PackInvariantsHold(placements, shelves, roll_width_mm)
       THEN lay_pc' = "compact" /\ lay_error' = lay_error
       ELSE lay_pc' = "error" /\ lay_error' = "AssertionError"
    /\ UNCHANGED <<blinds, rep, roll_width_mm, gap_mm, sorted_blinds, next_i,
                   placements, shelves, lay_result>>
    /\ UNCHANGED <<mkVars, tbVars, efVars, wkVars, fnVars>>

\* line 336: _compact_layout with the caller's gap
Compact ==
    /\ lay_pc = "compact"
    /\ LET r == CompactLayout(placements, shelves, roll_width_mm, gap_mm)
       IN  placements' = r.p /\ shelves' = r.s
    /\ lay_pc' = "finish"
    /\ UNCHANGED <<blinds, rep, roll_width_mm, gap_mm, sorted_blinds, next_i,
                   lay_error, lay_result>>
    /\ UNCHANGED <<mkVars, tbVars, efVars, wkVars, fnVars>>

\* lines 338-359
LayoutReturn ==
    /\ lay_pc = "finish"
    /\ lay_result' = LayoutResult(sorted_blinds, placements, shelves, roll_width_mm)
    /\ lay_pc' = "done"
    /\ UNCHANGED <<blinds, rep, roll_width_mm, gap_mm, sorted_blinds, next_i,
                   placements, shelves, lay_error>>
    /\ UNCHANGED <<mkVars, tbVars, efVars, wkVars, fnVars>>

NextLayout ==
    \/ LayoutEmpty
    \/ LayoutValidate
    \/ PackStart
    \/ PlacePiece
    \/ PackCheck
    \/ Compact
    \/ LayoutReturn

SpecLayout == InitLayout /\ [][NextLayout]_vars

-----------------------------------------------------------------------------
(* Marker segmentation: constants and helpers, lines 20-24, 449-548 *)

MARKER_ROLL_LENGTH_MM == 5900   \* core.py:20
SAFETY_GAP_X_MM == 10           \* core.py:21
APPLY_GAPS_TO_LENGTH == TRUE    \* core.py:23

MaxPl == 3                      \* longest placement list handed to the segmenter
MaxCalls == 2                   \* calls of build_markers_from_layout in one run

RECURSIVE InsertTuple(_, _)
InsertTuple(t, s) ==
    IF s = <<>> THEN <<t>>
    ELSE IF LexLess(t, Head(s)) THEN <<t>> \o s
    ELSE <<Head(s)>> \o InsertTuple(t, Tail(s))

RECURSIVE SortTuples(_)
\* list.sort() of a list of tuples
SortTuples(s) ==
    IF s = <<>> THEN <<>>
    ELSE InsertTuple(s[Len(s)], SortTuples(SubSeq(s, 1, Len(s) - 1)))

\* _make_cache_key, lines 449-457: the content that is hashed.  The key is the
\* SHA-256 of this content; two contents are taken to hash alike iff they are equal.
MakeCacheKey(ps, roll_width) ==
    <<roll_width, Len(ps),
      SortTuples([i \in 1..Len(ps) |->
                    <<ps[i].x, ps[i].y, ps[i].w, ps[i].h, ps[i].level, ps[i].item_id>>])>>

\* _normalize_local_x, lines 460-492, on a list of items [item_id, level, x, y, w, h]
NormalizeLocalX(items, marker_idx) ==
    IF items = <<>> THEN <<>>
    ELSE LET marker_offset == marker_idx * MARKER_ROLL_LENGTH_MM
             loc == [i \in 1..Len(items) |->
                        [items[i] EXCEPT !.x = items[i].x - marker_offset]]
             min_x == SeqMin([i \in 1..Len(loc) |-> loc[i].x])
         IN  IF min_x < 0 \/ min_x > 0
             THEN [i \in 1..Len(loc) |-> [loc[i] EXCEPT !.x = loc[i].x + (-min_x)]]
             ELSE loc

\* (item_id, level, x, y, w, h) of a placement, lines 514-517 and 658-661
ItemOf(p) ==
    [item_id |-> p.item_id, level |-> p.level, x |-> p.x, y |-> p.y,
     w |-> p.w, h |-> p.h]

RECURSIVE InsertByX(_, _, _)
\* stable insertion of item index i into the index list s ordered by x
InsertByX(items, i, s) ==
    IF s = <<>> THEN <<i>>
    ELSE IF items[i].x < items[Head(s)].x THEN <<i>> \o s
    ELSE <<Head(s)>> \o InsertByX(items, i, Tail(s))

RECURSIVE LevelByXUpTo(_, _, _)
LevelByXUpTo(items, lvl, n) ==
    IF n = 0 THEN <<>>
    ELSE IF items[n].level = lvl
         THEN InsertByX(items, n, LevelByXUpTo(items, lvl, n - 1))
         ELSE LevelByXUpTo(items, lvl, n - 1)

\* gap_count, lines 531-543 and 682-694: within each level, the neighbours in x
\* whose drops differ
GapCount(items) ==
    Cardinality(
        {lk \in {items[i].level : i \in 1..Len(items)} \X (1..Len(items)) :
            LET ord == LevelByXUpTo(items, lk[1], Len(items))
            IN  /\ lk[2] <= Len(ord) - 1
                /\ Abs(items[ord[lk[2]]].h - items[ord[lk[2] + 1]].h) > 0})

\* used_len of a normalised item list, lines 526-546 and 677-697
LengthWithGaps(loc) ==
    LET base == SeqMax([i \in 1..Len(loc) |-> loc[i].x + loc[i].h])
    IN  IF APPLY_GAPS_TO_LENGTH /\ GapCount(loc) > 0
        THEN base + GapCount(loc) * SAFETY_GAP_X_MM
        ELSE base

\* an estimate that forgets the safety gaps
EstimateLengthWithGaps_NoGaps(ps, marker_idx) ==
    IF ps = <<>> THEN 0
    ELSE LET loc == NormalizeLocalX([i \in 1..Len(ps) |-> ItemOf(ps[i])], marker_idx)
         IN  SeqMax([i \in 1..Len(loc) |-> loc[i].x + loc[i].h])

\* _estimate_length_with_gaps, lines 495-548
EstimateLengthWithGaps(ps, marker_idx) ==
    IF ps = <<>> THEN 0
    ELSE LengthWithGaps(NormalizeLocalX([i \in 1..Len(ps) |-> ItemOf(ps[i])], marker_idx))

-----------------------------------------------------------------------------
(* build_markers_from_layout, lines 551-750 *)

RECURSIVE InsertPlacement(_, _)
InsertPlacement(p, s) ==
    IF s = <<>> THEN <<p>>
    ELSE IF LexLess(<<p.x, p.level, p.item_id>>,
                    <<Head(s).x, Head(s).level, Head(s).item_id>>) THEN <<p>> \o s
    ELSE <<Head(s)>> \o InsertPlacement(p, Tail(s))

RECURSIVE SortPlacements(_)
\* sorted(placements, key=lambda p: (p.x, p.level, p.item_id)), lines 584 and 626
SortPlacements(ps) ==
    IF ps = <<>> THEN <<>>
    ELSE InsertPlacement(ps[Len(ps)], SortPlacements(SubSeq(ps, 1, Len(ps) - 1)))

\* a segmenter that leaves every placement in the marker of its start, also when
\* it runs over the boundary
MarkerOf_ByStart(p, roll_length) == p.x \div roll_length

\* the marker a placement is assigned to, lines 590-603
MarkerOf(p, roll_length) ==
    LET start == p.x
        end == start + p.h
        m_start == start \div roll_length
        boundary == (m_start + 1) * roll_length
    IN  IF end < boundary THEN m_start ELSE m_start + 1

RECURSIVE SelectMarker(_, _, _)
SelectMarker(ps, m, roll_length) ==
    IF ps = <<>> THEN <<>>
    ELSE IF MarkerOf(Head(ps), roll_length) = m
         THEN <<Head(ps)>> \o SelectMarker(Tail(ps), m, roll_length)
         ELSE SelectMarker(Tail(ps), m, roll_length)

\* buckets, lines 583-605
Buckets(ps, roll_length) ==
    LET sp == SortPlacements(ps)
    IN  [m \in {MarkerOf(sp[i], roll_length) : i \in 1..Len(sp)} |->
            SelectMarker(sp, m, roll_length)]

RECURSIVE SplitGroups(_, _, _, _, _, _)
\* the loop of lines 624-645 over the sorted placements ps of one bucket, from
\* position i on: the groups flushed so far, then the current group.  first_idx is
\* next_marker_idx when the loop starts.
SplitGroups(ps, i, groups, current_group, roll_length, first_idx) ==
    IF i > Len(ps)
    THEN IF current_group # <<>> THEN Append(groups, current_group) ELSE groups
    ELSE LET temp_group == Append(current_group, ps[i])
             est == EstimateLengthWithGaps(temp_group, first_idx + Len(groups))
         IN  IF est > roll_length /\ current_group # <<>>
             THEN SplitGroups(ps, i + 1, Append(groups, current_group), <<ps[i]>>,
                              roll_length, first_idx)
             ELSE SplitGroups(ps, i + 1, groups, temp_group, roll_length, first_idx)

RECURSIVE ProcessBuckets(_, _, _, _, _)
\* the loop of lines 611-648 over the sorted bucket keys
ProcessBuckets(keys, buckets, processed, next_marker_idx, roll_length) ==
    IF keys = <<>> THEN processed
    ELSE LET m == Head(keys)
             est == EstimateLengthWithGaps(buckets[m], m)
         IN  IF est > roll_length
             THEN LET groups == SplitGroups(SortPlacements(buckets[m]), 1, <<>>, <<>>,
                                            roll_length, next_marker_idx)
                      added == [k \in next_marker_idx..(next_marker_idx + Len(groups) - 1)
                                   |-> groups[k - next_marker_idx + 1]]
                  IN  ProcessBuckets(Tail(keys), buckets, added @@ processed,
                                     next_marker_idx + Len(groups), roll_length)
             ELSE ProcessBuckets(Tail(keys), buckets, (m :> buckets[m]) @@ processed,
                                 next_marker_idx, roll_length)

\* a segmenter that numbers the groups of a split bucket from 0, so that they
\* take the keys of other buckets
ProcessedBuckets_KeyClash(buckets, roll_length) ==
    ProcessBuckets(SortedSeqOf(DOMAIN buckets), buckets, <<>>, 0, roll_length)

\* processed_buckets, lines 608-648
ProcessedBuckets(buckets, roll_length) ==
    LET keys == SortedSeqOf(DOMAIN buckets)
    IN  ProcessBuckets(keys, buckets, <<>>,
                       IF keys = <<>> THEN 0 ELSE keys[Len(keys)] + 1, roll_length)

\* one Marker, lines 657-733, from the placements of a processed bucket
MakeMarker(ps, marker_idx, batch_id, roll_width, roll_length) ==
    LET items == [i \in 1..Len(ps) |-> ItemOf(ps[i])]
        min_global_x == SeqMin([i \in 1..Len(items) |-> items[i].x])
        segment_idx == min_global_x \div roll_length
        loc == NormalizeLocalX(items, segment_idx)
        used_len == LengthWithGaps(loc)
        excess == used_len - roll_length
        shifted == [i \in 1..Len(loc) |-> [loc[i] EXCEPT !.x = loc[i].x - excess]]
        loc2 == IF used_len > roll_length THEN shifted ELSE loc
        used2 == IF used_len > roll_length
                 THEN SeqMax([i \in 1..Len(loc2) |-> loc2[i].x + loc2[i].h])
                 ELSE used_len
    IN  [idx |-> marker_idx, batch_id |-> batch_id, roll_width_mm |-> roll_width,
         length_mm |-> Min2(used2, roll_length), rects |-> loc2]

\* markers, lines 650-736 (no processed bucket is empty, so none is skipped)
Markers(processed, batch_id, roll_width, roll_length) ==
    LET keys == SortedSeqOf(DOMAIN processed)
    IN  [k \in 1..Len(keys) |->
            MakeMarker(processed[keys[k]], k, batch_id, roll_width, roll_length)]

-----------------------------------------------------------------------------
(* build_markers_from_layout and clear_marker_cache as a state machine *)

\* compute_layout is not running
LayoutIdle ==
    /\ lay_pc = "idle"
    /\ blinds = <<>>
    /\ rep = 1
    /\ roll_width_mm = 0
    /\ gap_mm = 0
    /\ sorted_blinds = <<>>
    /\ next_i = 0
    /\ placements = <<>>
    /\ shelves = <<>>
    /\ lay_error = "none"
    /\ lay_result = EmptyResult

\* Placement lists the caller may pass: piece i (item_id i) has its own width
\* and y, and any of the start positions, drops and levels below.
MkXs == {0, 2950, 5900}
MkHs == {2945, 2950, 5900, 5910}
MkLevels == {0, 1}
MkRollLengths == {MARKER_ROLL_LENGTH_MM, 2950}
MkBatchIds == {1, 2}

MkPlacementDomain(i) ==
    {Placement(x, 1200 * i, 1000 + 100 * i, h, lvl, i) :
        x \in MkXs, h \in MkHs, lvl \in MkLevels}

RECURSIVE MkLists(_)
\* the placement lists of length k
MkLists(k) ==
    IF k = 0 THEN {<<>>}
    ELSE {Append(s, p) : s \in MkLists(k - 1), p \in MkPlacementDomain(k - 1)}

MkInputs == UNION {MkLists(k) : k \in 0..MaxPl}

InitMarkers ==
    /\ LayoutIdle
    /\ TubesIdle
    /\ EfficiencyIdle
    /\ WorkersIdle
    /\ FnIdle
    /\ mk_pc = "call"
    /\ mk_placements \in MkInputs
    /\ mk_roll_width = 3600
    /\ mk_batch_id = 1
    /\ mk_roll_length \in MkRollLengths
    /\ marker_cache = <<>>
    /\ mk_buckets = <<>>
    /\ mk_processed = <<>>
    /\ mk_markers = <<>>
    /\ mk_cache_was_empty = TRUE
    /\ mk_calls = 1

\* lines 574-578: the result of an earlier call is returned
MkCacheHit ==
    /\ mk_pc = "call"
    /\ MakeCacheKey(mk_placements, mk_roll_width) \in DOMAIN marker_cache
    /\ mk_markers' = marker_cache[MakeCacheKey(mk_placements, mk_roll_width)]
    /\ mk_pc' = "done"
    /\ UNCHANGED <<mk_placements, mk_roll_width, mk_batch_id, mk_roll_length,
                   marker_cache, mk_buckets, mk_processed, mk_cache_was_empty, mk_calls>>
    /\ UNCHANGED <<layVars, tbVars, efVars, wkVars, fnVars>>

\* lines 580-581
MkReturnEmpty ==
    /\ mk_pc = "call"
    /\ MakeCacheKey(mk_placements, mk_roll_width) \notin DOMAIN marker_cache
    /\ mk_placements = <<>>
    /\ mk_markers' = <<>>
    /\ mk_pc' = "done"
    /\ UNCHANGED <<mk_placements, mk_roll_width, mk_batch_id, mk_roll_length,
                   marker_cache, mk_buckets, mk_processed, mk_cache_was_empty, mk_calls>>
    /\ UNCHANGED <<layVars, tbVars, efVars, wkVars, fnVars>>

\* lines 583-605
MkAssign ==
    /\ mk_pc = "call"
    /\ MakeCacheKey(mk_placements, mk_roll_width) \notin DOMAIN marker_cache
    /\ mk_placements # <<>>
    /\ mk_buckets' = Buckets(mk_placements, mk_roll_length)
    /\ mk_pc' = "split"
    /\ UNCHANGED <<mk_placements, mk_roll_width, mk_batch_id, mk_roll_length,
                   marker_cache, mk_processed, mk_markers, mk_cache_was_empty, mk_calls>>
    /\ UNCHANGED <<layVars, tbVars, efVars, wkVars, fnVars>>

\* lines 607-648
MkSplit ==
    /\ mk_pc = "split"
    /\ mk_processed' = ProcessedBuckets(mk_buckets, mk_roll_length)
    /\ mk_pc' = "finalize"
    /\ UNCHANGED <<mk_placements, mk_roll_width, mk_batch_id, mk_roll_length,
                   marker_cache, mk_buckets, mk_markers, mk_cache_was_empty, mk_calls>>
    /\ UNCHANGED <<layVars, tbVars, efVars, wkVars, fnVars>>

\* lines 650-736
MkFinalize ==
    /\ mk_pc = "finalize"
    /\ mk_markers' = Markers(mk_processed, mk_batch_id, mk_roll_width, mk_roll_length)
    /\ mk_pc' = "store"
    /\ UNCHANGED <<mk_placements, mk_roll_width, mk_batch_id, mk_roll_length,
                   marker_cache, mk_buckets, mk_processed, mk_cache_was_empty, mk_calls>>
    /\ UNCHANGED <<layVars, tbVars, efVars, wkVars, fnVars>>

\* lines 747-750
MkStore ==
    /\ mk_pc = "store"
    /\ marker_cache' =
          (MakeCacheKey(mk_placements, mk_roll_width) :> mk_markers) @@ marker_cache
    /\ mk_pc' = "done"
    /\ UNCHANGED <<mk_placements, mk_roll_width, mk_batch_id, mk_roll_length,
                   mk_buckets, mk_processed, mk_markers, mk_cache_was_empty, mk_calls>>
    /\ UNCHANGED <<layVars, tbVars, efVars, wkVars, fnVars>>

\* clear_marker_cache, lines 753-756, between two calls
MkClearCache ==
    /\ mk_pc = "done"
    /\ mk_calls < MaxCalls
    /\ DOMAIN marker_cache # {}
    /\ marker_cache' = <<>>
    /\ UNCHANGED <<mk_pc, mk_placements, mk_roll_width, mk_batch_id, mk_roll_length,
                   mk_buckets, mk_processed, mk_markers, mk_cache_was_empty, mk_calls>>
    /\ UNCHANGED <<layVars, tbVars, efVars, wkVars, fnVars>>

\* the caller calls build_markers_from_layout again on the same layout, with any
\* batch id and roll length
MkCallAgain ==
    /\ mk_pc = "done"
    /\ mk_calls < MaxCalls
    /\ mk_calls' = mk_calls + 1
    /\ mk_batch_id' \in MkBatchIds
    /\ mk_roll_length' \in MkRollLengths
    /\ mk_cache_was_empty' = (DOMAIN marker_cache = {})
    /\ mk_buckets' = <<>>
    /\ mk_processed' = <<>>
    /\ mk_markers' = <<>>
    /\ mk_pc' = "call"
    /\ UNCHANGED <<mk_placements, mk_roll_width, marker_cache>>
    /\ UNCHANGED <<layVars, tbVars, efVars, wkVars, fnVars>>

NextMarkers ==
    \/ MkCacheHit
    \/ MkReturnEmpty
    \/ MkAssign
    \/ MkSplit
    \/ MkFinalize
    \/ MkStore
    \/ MkClearCache
    \/ MkCallAgain

SpecMarkers == InitMarkers /\ [][NextMarkers]_vars

-----------------------------------------------------------------------------
(* Tube planner: validate_pieces, pack_bfd, improve_pair_swaps, dedupe_patterns *)

MaxItems == 3                   \* longest item list handed to compute_tube_plan
MAX_PASSES == 2                 \* core.py:1047

\* [x] * n
Repeat(x, n) == [i \in 1..n |-> x]

RECURSIVE ValidPieces(_, _)
\* valid_pieces of validate_pieces, lines 778-801
ValidPieces(items, stock) ==
    IF items = <<>> THEN <<>>
    ELSE LET width_mm == Head(items)[1]
             qty == Head(items)[2]
         IN  IF qty <= 0 \/ width_mm <= 0 \/ width_mm > stock
             THEN ValidPieces(Tail(items), stock)
             ELSE Repeat(width_mm, qty) \o ValidPieces(Tail(items), stock)

RECURSIVE InfeasiblePieces_PerUnit(_, _)
\* a validation that reports a too long item once per unit of its quantity
InfeasiblePieces_PerUnit(items, stock) ==
    IF items = <<>> THEN <<>>
    ELSE LET width_mm == Head(items)[1]
             qty == Head(items)[2]
         IN  IF ~(qty <= 0) /\ ~(width_mm <= 0) /\ width_mm > stock
             THEN Repeat(<<width_mm, <<width_mm, "mm exceeds stock length", stock>>>>, qty)
                     \o InfeasiblePieces_PerUnit(Tail(items), stock)
             ELSE InfeasiblePieces_PerUnit(Tail(items), stock)

RECURSIVE InfeasiblePieces(_, _)
\* infeasible of validate_pieces, lines 778-801; the reason string names the
\* width and the stock length
InfeasiblePieces(items, stock) ==
    IF items = <<>> THEN <<>>
    ELSE LET width_mm == Head(items)[1]
             qty == Head(items)[2]
         IN  IF ~(qty <= 0) /\ ~(width_mm <= 0) /\ width_mm > stock
             THEN <<<<width_mm, <<width_mm, "mm exceeds stock length", stock>>>>>>
                     \o InfeasiblePieces(Tail(items), stock)
             ELSE InfeasiblePieces(Tail(items), stock)

RECURSIVE InsertDesc(_, _)
InsertDesc(x, s) ==
    IF s = <<>> THEN <<x>>
    ELSE IF x > Head(s) THEN <<x>> \o s
    ELSE <<Head(s)>> \o InsertDesc(x, Tail(s))

RECURSIVE SortDesc(_)
\* sorted(pieces, reverse=True), line 1038
SortDesc(s) ==
    IF s = <<>> THEN <<>>
    ELSE InsertDesc(s[Len(s)], SortDesc(SubSeq(s, 1, Len(s) - 1)))

\* a fit test that forgets the kerf
Needed_NoKerf(tube, piece_mm, kerf) == piece_mm

\* needed, lines 836-838
Needed(tube, piece_mm, kerf) ==
    IF tube.pieces # <<>> THEN piece_mm + kerf ELSE piece_mm

\* a packer that takes the first open tube the piece fits in
BestTube_FirstFit(tubes, piece_mm, stock, kerf) ==
    LET fit == {k \in 1..Len(tubes) :
                   Needed(tubes[k], piece_mm, kerf) <= stock - tubes[k].used}
    IN  IF fit = {} THEN 0 ELSE CHOOSE k \in fit : \A j \in fit : k <= j

\* 1-based index of best_tube of lines 830-844, 0 when it is None
BestTube(tubes, piece_mm, stock, kerf) ==
    LET fit == {k \in 1..Len(tubes) :
                   Needed(tubes[k], piece_mm, kerf) <= stock - tubes[k].used}
    IN  IF fit = {} THEN 0
        ELSE CHOOSE k \in fit :
               \A j \in fit :
                  \/ stock - tubes[k].used < stock - tubes[j].used
                  \/ stock - tubes[k].used = stock - tubes[j].used /\ k <= j

\* a packer that charges the best-fit tube for the piece without recording it
PlaceInTube_LosesPiece(tubes, piece_mm, stock, kerf) ==
    LET b == BestTube(tubes, piece_mm, stock, kerf)
    IN  IF b # 0
        THEN [tubes EXCEPT ![b] =
                 [pieces |-> tubes[b].pieces,
                  used |-> tubes[b].used
                             + (IF tubes[b].pieces # <<>> THEN kerf ELSE 0) + piece_mm]]
        ELSE Append(tubes, [pieces |-> <<piece_mm>>, used |-> piece_mm])

\* the open tubes after one iteration of the loop of lines 829-857
PlaceInTube(tubes, piece_mm, stock, kerf) ==
    LET b == BestTube(tubes, piece_mm, stock, kerf)
    IN  IF b # 0
        THEN [tubes EXCEPT ![b] =
                 [pieces |-> Append(tubes[b].pieces, piece_mm),
                  used |-> tubes[b].used
                             + (IF tubes[b].pieces # <<>> THEN kerf ELSE 0) + piece_mm]]
        ELSE Append(tubes, [pieces |-> <<piece_mm>>, used |-> piece_mm])

\* the TubeCut list of lines 859-869
TubeCuts(tubes, stock) ==
    [k \in 1..Len(tubes) |->
        [pieces_mm |-> tubes[k].pieces, used_mm |-> tubes[k].used,
         waste_mm |-> stock - tubes[k].used]]

\* a used length that forgets the kerfs between the pieces
CalcUsed_NoKerf(pieces, kerf) == IF pieces = <<>> THEN 0 ELSE SeqSum(pieces)

\* calc_used, lines 896-900
CalcUsed(pieces, kerf) ==
    IF pieces = <<>> THEN 0 ELSE SeqSum(pieces) + kerf * (Len(pieces) - 1)

\* an improvement that takes a fitting piece out of any tube, emptied by it or not
MoveAccepted_AnyPiece(mt, i, j, stock, kerf) ==
    /\ mt[i] # <<>> /\ mt[j] # <<>>
    /\ \E piece_idx \in 1..Len(mt[i]) :
          CalcUsed(Append(mt[j], mt[i][piece_idx]), kerf) <= stock

\* the move of lines 918-933 is accepted for the tubes i < j: both hold pieces,
\* some piece of tube i fits in tube j and taking it out empties tube i
MoveAccepted(mt, i, j, stock, kerf) ==
    /\ mt[i] # <<>> /\ mt[j] # <<>>
    /\ \E piece_idx \in 1..Len(mt[i]) :
          /\ CalcUsed(Append(mt[j], mt[i][piece_idx]), kerf) <= stock
          /\ Len(mt[i]) = 1

\* one pass of lines 906-941: the first accepted pair in loop order, then the
\* removal of the empty tubes
ImprovePass(mt, stock, kerf) ==
    LET pairs == {ij \in (1..Len(mt)) \X (1..Len(mt)) :
                     ij[1] < ij[2] /\ MoveAccepted(mt, ij[1], ij[2], stock, kerf)}
    IN  IF pairs = {} THEN SelectSeq(mt, LAMBDA t : t # <<>>)
        ELSE LET ij == CHOOSE a \in pairs : \A b \in pairs : a = b \/ LexLess(a, b)
                 moved == [mt EXCEPT ![ij[1]] = <<>>,
                                     ![ij[2]] = Append(mt[ij[2]], mt[ij[1]][1])]
             IN  SelectSeq(moved, LAMBDA t : t # <<>>)

\* `improved` of a pass, line 932
PassImproves(mt, stock, kerf) ==
    \E i, j \in 1..Len(mt) : i < j /\ MoveAccepted(mt, i, j, stock, kerf)

RECURSIVE ImproveLoop(_, _, _, _)
\* the loop of lines 905-944 with `passes` passes left; range(max_passes) is
\* empty for max_passes <= 0
ImproveLoop(mt, stock, kerf, passes) ==
    IF passes <= 0 THEN mt
    ELSE IF PassImproves(mt, stock, kerf)
         THEN ImproveLoop(ImprovePass(mt, stock, kerf), stock, kerf, passes - 1)
         ELSE ImprovePass(mt, stock, kerf)

\* improve_pair_swaps, lines 872-958; the list is rebuilt from the tubes that
\* hold pieces (`if pieces:`, line 949)
ImprovePairSwaps(tubes, stock, kerf, max_passes) ==
    IF Len(tubes) <= 1 THEN tubes
    ELSE LET mt == SelectSeq(ImproveLoop([k \in 1..Len(tubes) |-> tubes[k].pieces_mm],
                                         stock, kerf, max_passes),
                             LAMBDA t : t # <<>>)
         IN  [k \in 1..Len(mt) |->
                [pieces_mm |-> mt[k], used_mm |-> CalcUsed(mt[k], kerf),
                 waste_mm |-> stock - CalcUsed(mt[k], kerf)]]

RECURSIVE InsertAsc(_, _)
InsertAsc(x, s) ==
    IF s = <<>> THEN <<x>>
    ELSE IF x < Head(s) THEN <<x>> \o s
    ELSE <<Head(s)>> \o InsertAsc(x, Tail(s))

RECURSIVE SortAsc(_)
\* tuple(sorted(tube.pieces_mm)), line 977
SortAsc(s) ==
    IF s = <<>> THEN <<>>
    ELSE InsertAsc(s[Len(s)], SortAsc(SubSeq(s, 1, Len(s) - 1)))

RECURSIVE PatternMap(_)
\* pattern_map of lines 973-983 as the list of its entries in insertion order
PatternMap(tubes) ==
    IF tubes = <<>> THEN <<>>
    ELSE LET before == PatternMap(SubSeq(tubes, 1, Len(tubes) - 1))
             tube == tubes[Len(tubes)]
             key == SortAsc(tube.pieces_mm)
         IN  IF \E k \in 1..Len(before) : before[k].key = key
             THEN [k \in 1..Len(before) |->
                     IF before[k].key = key
                     THEN [before[k] EXCEPT !.count = before[k].count + 1]
                     ELSE before[k]]
             ELSE Append(before, [key |-> key, sample |-> tube, count |-> 1])

RECURSIVE InsertPattern(_, _)
InsertPattern(p, s) ==
    IF s = <<>> THEN <<p>>
    ELSE IF LexLess(<<-p.count, -SeqSum(p.key)>>,
                    <<-Head(s).count, -SeqSum(Head(s).key)>>) THEN <<p>> \o s
    ELSE <<Head(s)>> \o InsertPattern(p, Tail(s))

RECURSIVE SortPatterns(_)
\* patterns.sort(key=lambda p: (-p.count, -sum(p.key))), line 990
SortPatterns(s) ==
    IF s = <<>> THEN <<>>
    ELSE InsertPattern(s[Len(s)], SortPatterns(SubSeq(s, 1, Len(s) - 1)))

\* a pattern list that is left in the order of first appearance
DedupePatterns_Unsorted(tubes) == PatternMap(tubes)

\* dedupe_patterns, lines 961-992
DedupePatterns(tubes) == SortPatterns(PatternMap(tubes))

\* the TubePlan of lines 1054-1070; efficiency is the fraction <<num, den>>
TubePlan(pieces, tubes, infeasible, stock, kerf) ==
    LET total_used == SeqSum([k \in 1..Len(tubes) |-> tubes[k].used_mm])
        total_waste == SeqSum([k \in 1..Len(tubes) |-> tubes[k].waste_mm])
    IN  [total_pieces |-> Len(pieces), num_tubes |-> Len(tubes),
         stock_length_mm |-> stock, kerf_mm |-> kerf,
         efficiency |-> IF tubes # <<>> THEN <<total_used, Len(tubes) * stock>>
                        ELSE <<0, 1>>,
         total_used_mm |-> total_used, total_waste_mm |-> total_waste,
         tubes |-> tubes, patterns |-> DedupePatterns(tubes),
         infeasible_pieces |-> infeasible]

-----------------------------------------------------------------------------
(* compute_tube_plan as a state machine *)

TubeWidths == {0, 3, 4, 6, 11}
TubeQtys == {0, 1, 2}
TubeStocks == {10}
TubeKerfs == {-1, 0, 1}

InitTubes ==
    /\ LayoutIdle
    /\ MarkersIdle
    /\ EfficiencyIdle
    /\ WorkersIdle
    /\ FnIdle
    /\ tb_pc = "start"
    /\ tb_items \in SeqsUpTo(TubeWidths \X TubeQtys, MaxItems)
    /\ tb_stock \in TubeStocks
    /\ tb_kerf \in TubeKerfs
    /\ tb_pieces = <<>>
    /\ tb_infeasible = <<>>
    /\ tb_sorted = <<>>
    /\ tb_next = 0
    /\ tb_open = <<>>
    /\ tb_tubes = <<>>
    /\ tb_plan = EmptyPlan

\* line 1020: validate_pieces
TubeValidate ==
    /\ tb_pc = "start"
    /\ tb_pieces' = ValidPieces(tb_items, tb_stock)
    /\ tb_infeasible' = InfeasiblePieces(tb_items, tb_stock)
    /\ tb_pc' = "validated"
    /\ UNCHANGED <<tb_items, tb_stock, tb_kerf, tb_sorted, tb_next, tb_open,
                   tb_tubes, tb_plan>>
    /\ UNCHANGED <<layVars, mkVars, efVars, wkVars, fnVars>>

\* lines 1022-1035: no valid piece
TubeReturnEmpty ==
    /\ tb_pc = "validated"
    /\ tb_pieces = <<>>
    /\ tb_plan' = [EmptyPlan EXCEPT !.stock_length_mm = tb_stock,
                                    !.kerf_mm = tb_kerf,
                                    !.infeasible_pieces = tb_infeasible]
    /\ tb_pc' = "done"
    /\ UNCHANGED <<tb_items, tb_stock, tb_kerf, tb_pieces, tb_infeasible, tb_sorted,
                   tb_next, tb_open, tb_tubes>>
    /\ UNCHANGED <<layVars, mkVars, efVars, wkVars, fnVars>>

\* line 1038, and the start of pack_bfd, lines 824-827
TubeSort ==
    /\ tb_pc = "validated"
    /\ tb_pieces # <<>>
    /\ tb_sorted' = SortDesc(tb_pieces)
    /\ tb_next' = 0
    /\ tb_open' = <<>>
    /\ tb_pc' = "pack"
    /\ UNCHANGED <<tb_items, tb_stock, tb_kerf, tb_pieces, tb_infeasible,
                   tb_tubes, tb_plan>>
    /\ UNCHANGED <<layVars, mkVars, efVars, wkVars, fnVars>>

\* one iteration of the loop of pack_bfd, lines 829-857
TubePlace ==
    /\ tb_pc = "pack"
    /\ tb_next < Len(tb_sorted)
    /\ tb_open' = PlaceInTube(tb_open, tb_sorted[tb_next + 1], tb_stock, tb_kerf)
    /\ tb_next' = tb_next + 1
    /\ UNCHANGED <<tb_pc, tb_items, tb_stock, tb_kerf, tb_pieces, tb_infeasible,
                   tb_sorted, tb_tubes, tb_plan>>
    /\ UNCHANGED <<layVars, mkVars, efVars, wkVars, fnVars>>

\* the end of pack_bfd, lines 859-869
TubePacked ==
    /\ tb_pc = "pack"
    /\ tb_next = Len(tb_sorted)
    /\ tb_tubes' = TubeCuts(tb_open, tb_stock)
    /\ tb_pc' = "improve"
    /\ UNCHANGED <<tb_items, tb_stock, tb_kerf, tb_pieces, tb_infeasible, tb_sorted,
                   tb_next, tb_open, tb_plan>>
    /\ UNCHANGED <<layVars, mkVars, efVars, wkVars, fnVars>>

\* line 1047: improve_pair_swaps
TubeImprove ==
    /\ tb_pc = "improve"
    /\ tb_tubes' = ImprovePairSwaps(tb_tubes, tb_stock, tb_kerf, MAX_PASSES)
    /\ tb_pc' = "finish"
    /\ UNCHANGED <<tb_items, tb_stock, tb_kerf, tb_pieces, tb_infeasible, tb_sorted,
                   tb_next, tb_open, tb_plan>>
    /\ UNCHANGED <<layVars, mkVars, efVars, wkVars, fnVars>>

\* lines 1050-1074
TubeReturn ==
    /\ tb_pc = "finish"
    /\ tb_plan' = TubePlan(tb_pieces, tb_tubes, tb_infeasible, tb_stock, tb_kerf)
    /\ tb_pc' = "done"
    /\ UNCHANGED <<tb_items, tb_stock, tb_kerf, tb_pieces, tb_infeasible, tb_sorted,
                   tb_next, tb_open, tb_tubes>>
    /\ UNCHANGED <<layVars, mkVars, efVars, wkVars, fnVars>>

NextTubes ==
    \/ TubeValidate
    \/ TubeReturnEmpty
    \/ TubeSort
    \/ TubePlace
    \/ TubePacked
    \/ TubeImprove
    \/ TubeReturn

SpecTubes == InitTubes /\ [][NextTubes]_vars

-----------------------------------------------------------------------------
(* Properties of compute_layout *)

\* a valid input: every piece 0 < w <= roll_width, 0 < h, and gap >= 0
ValidLayoutInput ==
    /\ gap_mm >= 0
    /\ \A i \in 1..Len(blinds) :
          0 < blinds[i][1] /\ blinds[i][1] <= roll_width_mm /\ 0 < blinds[i][2]

LevelsOf(ps) == {ps[i].level : i \in 1..Len(ps)}

\* C1: every placement returned for a valid input has 0 <= y, y + w <= roll_width,
\* 0 <= x, h <= height of the shelf named by its level, and x = x0 of that shelf.
C1_PlacementsWithinShelves ==
    (lay_pc = "done" /\ ValidLayoutInput) =>
        \A i \in 1..Len(lay_result.placements) :
            LET p == lay_result.placements[i]
            IN  /\ 0 <= p.y
                /\ p.y + p.w <= roll_width_mm
                /\ 0 <= p.x
                /\ p.level \in 0..(Len(shelves) - 1)
                /\ p.h <= shelves[p.level + 1].height
                /\ p.x = shelves[p.level + 1].x0

\* a returned layout of a valid input with a positive gap, two shelves, and a
\* piece placed behind another one on its shelf
C1_Witness ==
    /\ lay_pc = "done" /\ ValidLayoutInput /\ gap_mm > 0
    /\ Len(shelves) >= 2
    /\ \E i \in 1..Len(lay_result.placements) : lay_result.placements[i].y > 0

\* C2: in every returned layout the pieces of one shelf, sorted by y, do not
\* overlap: y_i + w_i <= y_{i+1} for every adjacent pair.
C2_NoOverlapInShelf ==
    lay_pc = "done" =>
        \A lvl \in LevelsOf(lay_result.placements) :
            NoOverlapOnLevel(lay_result.placements, lvl)

\* C7: used_length equals the maximum of x + h over the placements, and x0 + height
\* of the last shelf; it is 0 for an empty piece list.
C7_UsedLengthIsExtent ==
    lay_pc = "done" =>
        LET ps == lay_result.placements
        IN  /\ lay_result.used_length_mm =
                 (IF ps = <<>> THEN 0
                  ELSE SeqMax([i \in 1..Len(ps) |-> ps[i].x + ps[i].h]))
            /\ lay_result.used_length_mm =
                 (IF shelves = <<>> THEN 0
                  ELSE shelves[Len(shelves)].x0 + shelves[Len(shelves)].height)
            /\ (blinds = <<>> => lay_result.used_length_mm = 0)

\* C8: for a valid non-empty input the utilization is
\* (sum of w*h) / (roll_width * used_length), lies in [0, 1], and the piece area
\* does not exceed roll_width * used_length; it is 0 when used_length is 0.
C8_UtilizationIsAreaRatio ==
    (lay_pc = "done" /\ ValidLayoutInput) =>
        LET u == lay_result.utilization
            area == SeqSum([i \in 1..Len(blinds) |-> blinds[i][1] * blinds[i][2]])
            rollArea == roll_width_mm * lay_result.used_length_mm
        IN  /\ blinds # <<>> =>
                 /\ rollArea > 0
                 /\ area <= rollArea
                 /\ u[1] * rollArea = area * u[2]
                 /\ 0 <= u[1] /\ u[1] <= u[2]
            /\ lay_result.used_length_mm = 0 => u[1] = 0

\* a returned layout of a valid input on two shelves that wastes some fabric
C8_Witness ==
    /\ lay_pc = "done" /\ ValidLayoutInput
    /\ Len(shelves) >= 2
    /\ lay_result.utilization[1] > 0
    /\ lay_result.utilization[1] < lay_result.utilization[2]

\* the non-empty inputs compute_layout has to reject
InvalidPieces ==
    /\ blinds # <<>>
    /\ \/ Len(blinds) * rep > MAX_PIECES
       \/ \E i \in 1..Len(blinds) :
             \/ blinds[i][1] <= 0 \/ blinds[i][2] <= 0
             \/ blinds[i][1] > MAX_WIDTH_MM \/ blinds[i][2] > MAX_DROP_MM
             \/ blinds[i][1] > roll_width_mm

\* C9: on such an input compute_layout never returns a layout: it ends with a
\* validation error, and no piece is placed on a shelf before the error.
C9_InvalidPiecesRejected ==
    InvalidPieces =>
        /\ lay_pc \in {"start", "pack", "error"}
        /\ placements = <<>> /\ shelves = <<>>
        /\ lay_pc = "error" => lay_error = "ValueError"
        /\ lay_pc # "error" => ENABLED NextLayout

\* the rejection of a piece that passes the limits of compute_layout and is wider
\* than the roll: the check inside _pack_ffdh
C9_Witness ==
    /\ lay_pc = "error" /\ lay_error = "ValueError"
    /\ rep = 1
    /\ \A i \in 1..Len(blinds) : PieceWithinLimits(blinds[i])
    /\ \E i \in 1..Len(blinds) : blinds[i][1] > roll_width_mm

\* C10: a call with gap < 0 fails: it returns no layout (stated for the calls
\* with at least one piece, which reach the packer).
C10_NegativeGapRejected == (gap_mm < 0 /\ blinds # <<>>) => lay_pc # "done"

-----------------------------------------------------------------------------
(* Properties of build_markers_from_layout *)

\* all rects of a marker list, in marker order
RECURSIVE AllRects(_)
AllRects(ms) == IF ms = <<>> THEN <<>> ELSE Head(ms).rects \o AllRects(Tail(ms))

\* number of elements of a sequence of records with the given (item_id, w, h)
CountOf(s, t) ==
    Cardinality({i \in 1..Len(s) : <<s[i].item_id, s[i].w, s[i].h>> = t})

\* a bucket was split: more markers than buckets
MkWasSplit ==
    /\ DOMAIN mk_buckets # {}
    /\ Len(mk_markers) > Cardinality(DOMAIN mk_buckets)

\* C3: the multiset of (item_id, w, h) over the rects of all returned markers
\* equals that of the input placement list: nothing is lost, duplicated or resized.
C3_MarkersPartitionInput ==
    mk_pc = "done" =>
        LET rects == AllRects(mk_markers)
        IN  /\ Len(rects) = Len(mk_placements)
            /\ \A i \in 1..Len(mk_placements) :
                  LET t == <<mk_placements[i].item_id, mk_placements[i].w,
                             mk_placements[i].h>>
                  IN  CountOf(rects, t) = CountOf(mk_placements, t)

\* a first call that split an overlong bucket and returned all three pieces
C3_Witness ==
    /\ mk_pc = "done" /\ mk_calls = 1
    /\ MkWasSplit
    /\ Len(mk_placements) = 3

\* C4: on an empty cache and with every drop h <= roll_length, every returned
\* marker has length <= roll_length and every rect has x >= 0 and x + h <= length.
C4_MarkersWithinRollLength ==
    (/\ mk_pc = "done"
     /\ mk_cache_was_empty
     /\ \A i \in 1..Len(mk_placements) : mk_placements[i].h <= mk_roll_length) =>
        \A k \in 1..Len(mk_markers) :
            /\ mk_markers[k].length_mm <= mk_roll_length
            /\ \A i \in 1..Len(mk_markers[k].rects) :
                  /\ mk_markers[k].rects[i].x >= 0
                  /\ mk_markers[k].rects[i].x + mk_markers[k].rects[i].h
                        <= mk_markers[k].length_mm

\* such a call in which the safety gaps made a bucket overlong, so that it was split
C4_Witness ==
    /\ mk_pc = "done" /\ mk_cache_was_empty
    /\ \A i \in 1..Len(mk_placements) : mk_placements[i].h <= mk_roll_length
    /\ MkWasSplit
    /\ \E m \in DOMAIN mk_buckets :
          /\ EstimateLengthWithGaps(mk_buckets[m], m) > mk_roll_length
          /\ EstimateLengthWithGaps_NoGaps(mk_buckets[m], m) <= mk_roll_length

-----------------------------------------------------------------------------
(* Properties of compute_tube_plan *)

\* number of pieces of length v in a list of TubeCut
CountInTubes(tubes, v) ==
    SeqSum([k \in 1..Len(tubes) |->
              Cardinality({i \in 1..Len(tubes[k].pieces_mm) : tubes[k].pieces_mm[i] = v})])

\* number of pieces of length v the caller asked for, the skipped items
\* (qty <= 0 or width <= 0) and the infeasible ones (width > stock) left out
CountExpected(v) ==
    SeqSum([i \in 1..Len(tb_items) |->
              IF /\ tb_items[i][1] = v /\ tb_items[i][2] > 0
                 /\ v > 0 /\ v <= tb_stock
              THEN tb_items[i][2] ELSE 0])

PiecesIn(tubes) ==
    UNION {{tubes[k].pieces_mm[i] : i \in 1..Len(tubes[k].pieces_mm)} : k \in 1..Len(tubes)}

SamePiecesAsInput(tubes) ==
    \A v \in PiecesIn(tubes) \cup {tb_items[i][1] : i \in 1..Len(tb_items)} :
        CountInTubes(tubes, v) = CountExpected(v)

\* C5: the multiset of piece lengths over all tubes of the plan equals the
\* expanded input minus the infeasible and skipped items, after best-fit packing
\* and after the pairwise improvement; total_pieces is the number of pieces in
\* the tubes.
C5_TubesHoldExactlyTheInput ==
    /\ tb_pc \in {"improve", "finish"} => SamePiecesAsInput(tb_tubes)
    /\ tb_pc = "done" =>
          /\ SamePiecesAsInput(tb_plan.tubes)
          /\ tb_plan.total_pieces =
                SeqSum([k \in 1..Len(tb_plan.tubes) |-> Len(tb_plan.tubes[k].pieces_mm)])

\* a plan with a tube of several pieces, for an input with an infeasible item
\* and a skipped item
C5_Witness ==
    /\ tb_pc = "done"
    /\ \E k \in 1..Len(tb_plan.tubes) : Len(tb_plan.tubes[k].pieces_mm) >= 2
    /\ tb_plan.infeasible_pieces # <<>>
    /\ \E i \in 1..Len(tb_items) : tb_items[i][2] <= 0 \/ tb_items[i][1] <= 0

\* C6: with kerf >= 0 every tube of the plan has
\* used = sum of its pieces + kerf * (number of pieces - 1), 0 <= used <= stock_length
\* and used + waste = stock_length; total_used + total_waste = tubes * stock_length.
C6_TubeAccounting ==
    (tb_pc = "done" /\ tb_kerf >= 0) =>
        /\ \A k \in 1..Len(tb_plan.tubes) :
              LET t == tb_plan.tubes[k]
              IN  /\ t.used_mm = SeqSum(t.pieces_mm) + tb_kerf * (Len(t.pieces_mm) - 1)
                  /\ 0 <= t.used_mm /\ t.used_mm <= tb_stock
                  /\ t.used_mm + t.waste_mm = tb_stock
        /\ tb_plan.total_used_mm + tb_plan.total_waste_mm
              = Len(tb_plan.tubes) * tb_stock
        /\ tb_plan.num_tubes = Len(tb_plan.tubes)

\* a plan with a positive kerf, a tube of several pieces and a second tube
C6_Witness ==
    /\ tb_pc = "done" /\ tb_kerf > 0
    /\ tb_plan.num_tubes >= 2
    /\ \E k \in 1..Len(tb_plan.tubes) : Len(tb_plan.tubes[k].pieces_mm) >= 2

-----------------------------------------------------------------------------
(* item ids of compute_layout *)

\* C11: in a returned layout the item_ids are pairwise distinct, cover 0..n-1, and
\* the placement with item_id k has the width and the drop of the k-th piece of
\* the caller's list (0-based).
C11_ItemIdIsInputIndex ==
    lay_pc = "done" =>
        LET ps == lay_result.placements
        IN  /\ Len(ps) = Len(blinds)
            /\ \A i, j \in 1..Len(ps) : ps[i].item_id = ps[j].item_id => i = j
            /\ {ps[i].item_id : i \in 1..Len(ps)} = 0..(Len(blinds) - 1)
            /\ \A i \in 1..Len(ps) :
                  /\ ps[i].item_id + 1 \in 1..Len(blinds)
                  /\ <<ps[i].w, ps[i].h>> = blinds[ps[i].item_id + 1]

-----------------------------------------------------------------------------
(* The memoisation map across several calls *)

\* C12: every marker a call returns carries the batch_id passed to that call,
\* whatever calls preceded it.
C12_MarkersCarryCallersBatchId ==
    mk_pc = "done" =>
        \A k \in 1..Len(mk_markers) : mk_markers[k].batch_id = mk_batch_id

\* what the call in progress returns when the cache is empty, lines 580-736
MarkersOnEmptyCache ==
    IF mk_placements = <<>> THEN <<>>
    ELSE Markers(ProcessedBuckets(Buckets(mk_placements, mk_roll_length), mk_roll_length),
                 mk_batch_id, mk_roll_width, mk_roll_length)

\* C13: after any sequence of build and clear calls, a build call returns exactly
\* the marker list the same call returns on an empty cache, and no marker is
\* longer than the roll_length of the call.
C13_CacheIsTransparent ==
    mk_pc = "done" =>
        /\ mk_markers = MarkersOnEmptyCache
        /\ \A k \in 1..Len(mk_markers) : mk_markers[k].length_mm <= mk_roll_length

-----------------------------------------------------------------------------
(* Several workers calling build_markers_from_layout and clear_marker_cache on *)
(* the one process-wide _marker_cache.  The code takes no lock; a thread can   *)
(* be preempted between any two of the steps below.                            *)

Workers == {1, 2}
MaxClears == 1

\* roll_width_mm and roll_length_mm of every worker's call
WkRollWidth == 3600
WkRollLength == MARKER_ROLL_LENGTH_MM

\* the placement lists the workers pass: the empty one and those of one piece
WkInputs == MkLists(0) \cup MkLists(1)

WkKey(w) == MakeCacheKey(wk_placements[w], WkRollWidth)

InitWorkers ==
    /\ LayoutIdle
    /\ MarkersIdle
    /\ TubesIdle
    /\ EfficiencyIdle
    /\ FnIdle
    /\ wk_pc = [w \in Workers |-> "call"]
    /\ wk_placements \in [Workers -> WkInputs]
    /\ wk_batch_id = [w \in Workers |-> w]
    /\ wk_markers = [w \in Workers |-> <<>>]
    /\ wk_error = [w \in Workers |-> "none"]
    /\ wk_clears = 0

mkCallVars == <<mk_pc, mk_placements, mk_roll_width, mk_batch_id, mk_roll_length,
                mk_buckets, mk_processed, mk_markers, mk_cache_was_empty, mk_calls>>

\* lines 575-576 and 580-581: the membership test `cache_key in _marker_cache`,
\* then the empty fast path
WkTest(w) ==
    /\ wk_pc[w] = "call"
    /\ IF WkKey(w) \in DOMAIN marker_cache
       THEN /\ wk_pc' = [wk_pc EXCEPT ![w] = "hit"]
            /\ UNCHANGED wk_markers
       ELSE IF wk_placements[w] = <<>>
       THEN /\ wk_pc' = [wk_pc EXCEPT ![w] = "done"]
            /\ wk_markers' = [wk_markers EXCEPT ![w] = <<>>]
       ELSE /\ wk_pc' = [wk_pc EXCEPT ![w] = "compute"]
            /\ UNCHANGED wk_markers
    /\ UNCHANGED <<wk_placements, wk_batch_id, wk_error, wk_clears, marker_cache>>
    /\ UNCHANGED <<layVars, mkCallVars, tbVars, efVars, fnVars>>

\* line 578: the lookup `_marker_cache[cache_key]`; a missing key raises KeyError
WkLookup(w) ==
    /\ wk_pc[w] = "hit"
    /\ IF WkKey(w) \in DOMAIN marker_cache
       THEN /\ wk_markers' = [wk_markers EXCEPT ![w] = marker_cache[WkKey(w)]]
            /\ wk_pc' = [wk_pc EXCEPT ![w] = "done"]
            /\ UNCHANGED wk_error
       ELSE /\ wk_error' = [wk_error EXCEPT ![w] = "KeyError"]
            /\ wk_pc' = [wk_pc EXCEPT ![w] = "failed"]
            /\ UNCHANGED wk_markers
    /\ UNCHANGED <<wk_placements, wk_batch_id, wk_clears, marker_cache>>
    /\ UNCHANGED <<layVars, mkCallVars, tbVars, efVars, fnVars>>

\* lines 583-736: the markers are built on the worker's own data
WkCompute(w) ==
    /\ wk_pc[w] = "compute"
    /\ wk_markers' = [wk_markers EXCEPT ![w] =
          Markers(ProcessedBuckets(Buckets(wk_placements[w], WkRollLength), WkRollLength),
                  wk_batch_id[w], WkRollWidth, WkRollLength)]
    /\ wk_pc' = [wk_pc EXCEPT ![w] = "store"]
    /\ UNCHANGED <<wk_placements, wk_batch_id, wk_error, wk_clears, marker_cache>>
    /\ UNCHANGED <<layVars, mkCallVars, tbVars, efVars, fnVars>>

\* lines 747-750: `_marker_cache[cache_key] = markers`
WkStore(w) ==
    /\ wk_pc[w] = "store"
    /\ marker_cache' = (WkKey(w) :> wk_markers[w]) @@ marker_cache
    /\ wk_pc' = [wk_pc EXCEPT ![w] = "done"]
    /\ UNCHANGED <<wk_placements, wk_batch_id, wk_markers, wk_error, wk_clears>>
    /\ UNCHANGED <<layVars, mkCallVars, tbVars, efVars, fnVars>>

\* clear_marker_cache, lines 753-756, called at any moment
WkClear ==
    /\ wk_clears < MaxClears
    /\ wk_clears' = wk_clears + 1
    /\ marker_cache' = <<>>
    /\ UNCHANGED <<wk_pc, wk_placements, wk_batch_id, wk_markers, wk_error>>
    /\ UNCHANGED <<layVars, mkCallVars, tbVars, efVars, fnVars>>

NextWorkers ==
    \/ \E w \in Workers : WkTest(w)
    \/ \E w \in Workers : WkLookup(w)
    \/ \E w \in Workers : WkCompute(w)
    \/ \E w \in Workers : WkStore(w)
    \/ WkClear

SpecWorkers == InitWorkers /\ [][NextWorkers]_vars

\* C14: under every interleaving of the workers' build calls and the clear calls
\* each build call completes without error and returns the markers of its own
\* input (the rects of the returned markers are the worker's own placements).
C14_ConcurrentCallsComplete ==
    \A w \in Workers :
        /\ wk_error[w] = "none"
        /\ wk_pc[w] # "failed"
        /\ wk_pc[w] = "done" =>
              LET rects == AllRects(wk_markers[w])
              IN  /\ Len(rects) = Len(wk_placements[w])
                  /\ \A i \in 1..Len(rects) :
                        CountOf(wk_placements[w],
                                <<rects[i].item_id, rects[i].w, rects[i].h>>) = 1

-----------------------------------------------------------------------------
(* compute_layout as a function, for the callers inside the engine *)

RECURSIVE PackUpTo(_, _, _, _)
\* placements and shelves after the first n iterations of the loop of _pack_ffdh
PackUpTo(items, n, roll, gap) ==
    IF n = 0 THEN [p |-> <<>>, s |-> <<>>]
    ELSE LET r == PackUpTo(items, n - 1, roll, gap)
         IN  PlaceOne(r.p, r.s, n - 1, items[n][1], items[n][2], roll, gap)

\* compute_layout(items, roll, gap), lines 285-359: the exception raised, if any,
\* and the dictionary returned
ComputeLayout(items, roll, gap) ==
    LET sorted == SortByArea(items)
        packed == PackUpTo(sorted, Len(sorted), roll, PackGap(gap))
        compacted == CompactLayout(packed.p, packed.s, roll, gap)
    IN  IF items = <<>> THEN [error |-> "none", result |-> EmptyResult]
        ELSE IF \/ Len(items) > MAX_PIECES
                \/ \E i \in 1..Len(items) : ~PieceWithinLimits(items[i])
                \/ WidthExceedsRoll(sorted, roll)
        THEN [error |-> "ValueError", result |-> EmptyResult]
        ELSE IF ~PackInvariantsHold(packed.p, packed.s, roll)
        THEN [error |-> "AssertionError", result |-> EmptyResult]
        ELSE [error |-> "none",
              result |-> LayoutResult(sorted, compacted.p, compacted.s, roll)]

-----------------------------------------------------------------------------
(* Python floats: IEEE 754 binary64, round to nearest, ties to even.          *)
(* A natural number too large for one integer of the model is the sequence of *)
(* its digits in base 2^13, lowest first, without leading zeros (<<>> is 0).  *)
(* A float is zero or m * 2^e with a significand m of exactly 53 bits. The     *)
(* values met here are non-negative and far from the subnormal and the        *)
(* overflow range.                                                            *)

RECURSIVE Pow2(_)
Pow2(k) == IF k = 0 THEN 1 ELSE 2 * Pow2(k - 1)

RECURSIVE BitLen(_)
\* the number of bits of an integer n >= 0
BitLen(n) == IF n = 0 THEN 0 ELSE 1 + BitLen(n \div 2)

\* the base of the digits and the bits of one digit
Radix == Pow2(13)
LimbBits == BitLen(Radix) - 1

RECURSIVE BnOfInt(_)
\* the digits of an integer n >= 0
BnOfInt(n) == IF n = 0 THEN <<>> ELSE <<n % Radix>> \o BnOfInt(n \div Radix)

RECURSIVE BnToInt(_)
BnToInt(a) == IF a = <<>> THEN 0 ELSE a[1] + Radix * BnToInt(Tail(a))

RECURSIVE BnTrim(_)
\* without leading zeros
BnTrim(a) ==
    IF a = <<>> \/ a[Len(a)] # 0 THEN a ELSE BnTrim(SubSeq(a, 1, Len(a) - 1))

\* digit i of a, counted from 1
BnDigit(a, i) == IF 1 <= i /\ i <= Len(a) THEN a[i] ELSE 0

\* the number of bits of a
BnBitLen(a) == IF a = <<>> THEN 0 ELSE LimbBits * (Len(a) - 1) + BitLen(a[Len(a)])

\* bit i of a, counted from 1
BnBit(a, i) ==
    (BnDigit(a, (i - 1) \div LimbBits + 1) \div Pow2((i - 1) % LimbBits)) % 2

RECURSIVE BnAddFrom(_, _, _, _)
BnAddFrom(a, b, i, carry) ==
    IF i > Len(a) /\ i > Len(b)
    THEN IF carry = 1 THEN <<1>> ELSE <<>>
    ELSE LET t == BnDigit(a, i) + BnDigit(b, i) + carry
         IN  <<t % Radix>> \o BnAddFrom(a, b, i + 1, t \div Radix)

BnAdd(a, b) == BnAddFrom(a, b, 1, 0)

RECURSIVE BnSubFrom(_, _, _, _)
BnSubFrom(a, b, i, borrow) ==
    IF i > Len(a) THEN <<>>
    ELSE LET t == BnDigit(a, i) - BnDigit(b, i) - borrow
         IN  <<t % Radix>> \o BnSubFrom(a, b, i + 1, IF t < 0 THEN 1 ELSE 0)

\* a - b for a >= b
BnSub(a, b) == BnTrim(BnSubFrom(a, b, 1, 0))

\* a < b
BnLess(a, b) ==
    IF Len(a) # Len(b) THEN Len(a) < Len(b)
    ELSE \E i \in 1..Len(a) :
            a[i] < b[i] /\ \A j \in (i + 1)..Len(a) : a[j] = b[j]

RECURSIVE BnMulFrom(_, _, _, _)
BnMulFrom(a, k, i, carry) ==
    IF i > Len(a) THEN BnOfInt(carry)
    ELSE LET t == a[i] * k + carry
         IN  <<t % Radix>> \o BnMulFrom(a, k, i + 1, t \div Radix)

\* a * k for an integer 0 <= k < 2^17
BnMulSmall(a, k) == IF k = 0 THEN <<>> ELSE BnMulFrom(a, k, 1, 0)

RECURSIVE BnMul(_, _)
BnMul(a, b) ==
    IF a = <<>> \/ b = <<>> THEN <<>>
    ELSE BnAdd(BnMulSmall(a, b[1]), BnTrim(<<0>> \o BnMul(a, Tail(b))))

\* a * 2^k
BnShl(a, k) ==
    IF a = <<>> THEN <<>>
    ELSE [i \in 1..(k \div LimbBits) |-> 0] \o BnMulSmall(a, Pow2(k % LimbBits))

\* a \div 2^k
BnShr(a, k) ==
    LET whole == k \div LimbBits
        part == Pow2(k % LimbBits)
    IN  IF whole >= Len(a) THEN <<>>
        ELSE BnTrim([i \in 1..(Len(a) - whole) |->
                        a[i + whole] \div part
                          + (BnDigit(a, i + whole + 1) % part) * (Radix \div part)])

RECURSIVE BnQuotDigit(_, _, _, _)
\* the largest d + t with t < 2 * bit and b * (d + t) <= r
BnQuotDigit(r, b, d, bit) ==
    IF bit = 0 THEN d
    ELSE IF BnLess(r, BnMulSmall(b, d + bit))
    THEN BnQuotDigit(r, b, d, bit \div 2)
    ELSE BnQuotDigit(r, b, d + bit, bit \div 2)

RECURSIVE BnDivFrom(_, _, _, _, _)
\* long division: the digits of a from digit i down, quotient q and remainder r
\* so far
BnDivFrom(a, b, i, q, r) ==
    IF i = 0 THEN [q |-> BnTrim(q), r |-> r]
    ELSE LET r2 == BnTrim(<<a[i]>> \o r)
             d == BnQuotDigit(r2, b, 0, Radix \div 2)
         IN  BnDivFrom(a, b, i - 1, <<d>> \o q, BnSub(r2, BnMulSmall(b, d)))

\* quotient and remainder of a by b > 0
BnDivMod(a, b) == BnDivFrom(a, b, Len(a), <<>>, <<>>)

\* one of the k lowest bits of a is set
BnLowSet(a, k) == \E i \in 1..k : BnBit(a, i) = 1

\* a \div 2^k rounded to the nearest integer, ties to even; `sticky` says that
\* the exact value lies above a by a part of a unit
BnRoundShr(a, k, sticky) ==
    LET hi == BnShr(a, k)
        up == /\ k >= 1
              /\ BnBit(a, k) = 1
              /\ (sticky \/ BnLowSet(a, k - 1) \/ BnBit(hi, 1) = 1)
    IN  IF up THEN BnAdd(hi, <<1>>) ELSE hi

FZero == [m |-> <<>>, e |-> 0]

\* the float nearest to n * 2^e (plus a part of 2^e when `sticky`); an inexact
\* n has more than 53 bits
FRound(n, e, sticky) ==
    LET len == BnBitLen(n)
        m == BnRoundShr(n, len - 53, sticky)
    IN  IF n = <<>> THEN FZero
        ELSE IF len <= 53 THEN [m |-> BnShl(n, 53 - len), e |-> e - (53 - len)]
        ELSE IF BnBitLen(m) = 54 THEN [m |-> BnShr(m, 1), e |-> e + (len - 53) + 1]
        ELSE [m |-> m, e |-> e + (len - 53)]

\* float(n) for an integer n >= 0
FOfInt(n) == FRound(BnOfInt(n), 0, FALSE)

\* x + y
FAdd(x, y) ==
    IF x.m = <<>> THEN y
    ELSE IF y.m = <<>> THEN x
    ELSE LET e == IF x.e < y.e THEN x.e ELSE y.e
         IN  FRound(BnAdd(BnShl(x.m, x.e - e), BnShl(y.m, y.e - e)), e, FALSE)

\* x - y for x >= y
FSub(x, y) ==
    IF y.m = <<>> THEN x
    ELSE LET e == IF x.e < y.e THEN x.e ELSE y.e
         IN  FRound(BnSub(BnShl(x.m, x.e - e), BnShl(y.m, y.e - e)), e, FALSE)

\* x * y
FMul(x, y) == FRound(BnMul(x.m, y.m), x.e + y.e, FALSE)

\* x / y for y > 0
FDiv(x, y) ==
    IF x.m = <<>> THEN FZero
    ELSE LET d == BnDivMod(BnShl(x.m, 55), y.m)
         IN  FRound(d.q, x.e - y.e - 55, d.r # <<>>)

RECURSIVE Pow10(_)
Pow10(k) == IF k = 0 THEN 1 ELSE 10 * Pow10(k - 1)

\* round(x, ndigits) of core.py lines 1164-1169 and 1184-1188, in units of 10^-ndigits: the multiple nearest to the exact
\* value of the float, ties to even
Round(x, ndigits) ==
    LET n == BnMulSmall(x.m, Pow10(ndigits))
    IN  IF x.e >= 0 THEN BnToInt(BnShl(n, x.e))
        ELSE BnToInt(BnRoundShr(n, -x.e, FALSE))

-----------------------------------------------------------------------------
(* compute_efficiency and the endpoint POST /api/v1/waste/efficiency *)
(* Percentages are kept in hundredths of a percent (round(x, 2)), areas in     *)
(* thousandths of a square metre (round(x, 3)), lengths in millimetres.        *)

MAX_LINES == 1000           \* waste_efficiency.py:82
MAX_QTY == 1000             \* core.py:386
DEFAULT_ROLL_WIDTH == 3000  \* core.py:1123
MaxLines == 2               \* longest ordinary request

\* x * 100.0 rounded to two places, lines 1164-1165 and 1184-1185, in hundredths
\* of a percent
Pct(x) == Round(FMul(x, FOfInt(100)), 2)

\* n / 1_000_000.0 for an area n in mm^2, lines 1157-1158
AreaM2(n) == FDiv(FOfInt(n), FOfInt(1000000))

\* the float total_area / denom of compute_layout, line 344 (clamped, line 351),
\* from its operands
UtilFloat(u) == FDiv(FOfInt(u[1]), FOfInt(u[2]))

RECURSIVE FSum(_)
\* total += x over a list, from 0.0 (lines 1145-1146 and 1175-1176)
FSum(xs) ==
    IF xs = <<>> THEN FZero
    ELSE FAdd(FSum(SubSeq(xs, 1, Len(xs) - 1)), xs[Len(xs)])

\* totals of the empty fast path that report no waste
EmptyTotals_ZeroWaste ==
    [eff_pct |-> 0, waste_pct |-> 0, total_area_m2 |-> 0,
     total_used_area_m2 |-> 0, total_waste_area_m2 |-> 0]

\* the totals of the empty fast path, lines 1100-1106
EmptyTotals ==
    [eff_pct |-> 0, waste_pct |-> 10000, total_area_m2 |-> 0,
     total_used_area_m2 |-> 0, total_waste_area_m2 |-> 0]

MaxLineWidth(lines) == SeqMax([i \in 1..Len(lines) |-> lines[i].width_mm])

\* a selection that takes the largest candidate whether or not a smaller one fits
SelectRollWidth_Largest(lines, candidates) ==
    IF candidates # <<>>
    THEN SeqMax(candidates)
    ELSE Max2(MaxLineWidth(lines), DEFAULT_ROLL_WIDTH)

\* roll_width_mm, lines 1108-1123, for a non-empty list of lines
SelectRollWidth(lines, candidates) ==
    IF candidates # <<>>
    THEN LET fitting == {i \in 1..Len(candidates) :
                            candidates[i] >= MaxLineWidth(lines)}
         IN  IF fitting # {}
             THEN SeqMin(SortedSeqOf({candidates[i] : i \in fitting}))
             ELSE SeqMax(candidates)
    ELSE Max2(MaxLineWidth(lines), DEFAULT_ROLL_WIDTH)

\* one iteration of the loop of compute_layout_per_line, lines 378-416, for the
\* line with 1-based index k of lines_data (lines 1130-1139): the exception raised,
\* whether compute_layout was called, and the per-line result
PackLine(lines, k, roll) ==
    LET items == Repeat(<<lines[k].width_mm, lines[k].drop_mm>>, lines[k].qty)
        lay == ComputeLayout(items, roll, 0)
        none == [line_id |-> k, placements |-> <<>>, used_length_mm |-> 0,
                 util |-> <<0, 1>>, levels |-> 0, pieces |-> 0, roll_width_mm |-> roll]
    IN  IF Len(items) > MAX_QTY
        THEN [error |-> "ValueError", called |-> FALSE, line |-> none]
        ELSE IF items # <<>> /\ lines[k].width_mm > roll
        THEN [error |-> "ValueError", called |-> FALSE, line |-> none]
        ELSE IF lay.error # "none"
        THEN [error |-> lay.error, called |-> TRUE, line |-> none]
        ELSE [error |-> "none", called |-> TRUE,
              line |-> [line_id |-> k,
                        placements |->
                           [i \in 1..Len(lay.result.placements) |->
                               [lay.result.placements[i] EXCEPT !.line_id = k]],
                        used_length_mm |-> lay.result.used_length_mm,
                        util |-> lay.result.utilization,
                        levels |-> lay.result.levels,
                        pieces |-> Len(items),
                        roll_width_mm |-> roll]]

\* sum of w * h over the placements of a line, in mm^2 (line 1157)
BlindArea(lr) == SeqSum([i \in 1..Len(lr.placements) |->
                            lr.placements[i].w * lr.placements[i].h])

\* roll_width * used_length_mm, in mm^2 (line 1158)
RollArea(lr) == lr.roll_width_mm * lr.used_length_mm

\* one entry of `results`, lines 1149-1173; line_id is mapped back through
\* line_id_map (line 1126)
LineResult(lines, lr) ==
    LET blind_area_m2 == AreaM2(BlindArea(lr))
        roll_area_m2 == AreaM2(RollArea(lr))
        waste_area_m2 == FSub(roll_area_m2, blind_area_m2)
    IN  [line_id |-> lines[lr.line_id].line_id,
         waste_factor_pct |-> IF blind_area_m2 # FZero
                              THEN Pct(FDiv(waste_area_m2, blind_area_m2))
                              ELSE 0,
         utilization |-> Pct(UtilFloat(lr.util)),
         used_length_mm |-> lr.used_length_mm,
         blind_area_m2 |-> Round(blind_area_m2, 3),
         roll_area_m2 |-> Round(roll_area_m2, 3),
         waste_area_m2 |-> Round(waste_area_m2, 3),
         roll_width_mm |-> lr.roll_width_mm,
         pieces |-> lr.pieces,
         levels |-> lr.levels]

\* totals, lines 1175-1193
Totals(layouts) ==
    LET total_blind_area == FSum([i \in 1..Len(layouts) |-> AreaM2(BlindArea(layouts[i]))])
        total_roll_area == FSum([i \in 1..Len(layouts) |-> AreaM2(RollArea(layouts[i]))])
        overall_utilization == IF total_roll_area # FZero
                               THEN FDiv(total_blind_area, total_roll_area)
                               ELSE FZero
        overall_waste == FSub(FOfInt(1), overall_utilization)
    IN  [eff_pct |-> Pct(overall_utilization),
         waste_pct |-> Pct(overall_waste),
         total_area_m2 |-> Round(total_blind_area, 3),
         total_used_area_m2 |-> Round(total_roll_area, 3),
         total_waste_area_m2 |-> Round(FSub(total_roll_area, total_blind_area), 3),
         total_pieces |-> SeqSum([i \in 1..Len(layouts) |-> layouts[i].pieces]),
         total_levels |-> SeqSum([i \in 1..Len(layouts) |-> layouts[i].levels])]

\* the fields TotalsResult requires, responses.py lines 22-30
TotalsFields ==
    {"eff_pct", "waste_pct", "total_area_m2", "total_used_area_m2",
     "total_waste_area_m2", "total_pieces", "total_levels"}

\* the body passes the request model, requests.py lines 8-39: conint(gt=0)
BodyValid(lines, widths) ==
    /\ \A i \in 1..Len(lines) :
          lines[i].width_mm > 0 /\ lines[i].drop_mm > 0 /\ lines[i].qty > 0
    /\ \A i \in 1..Len(widths) : widths[i] > 0

\* _normalize_widths, requests.py lines 41-48: duplicates removed, then sorted
NormalizeWidths(widths) == SortedSeqOf({widths[i] : i \in 1..Len(widths)})

\* The lines a request may hold, as <<width_mm, drop_mm, qty>>: ordinary ones,
\* one over each limit of the engine, and one of each kind the request model
\* refuses.
EfLineShapes ==
    {<<2400, 2100, 1>>, <<2400, 2100, 2>>, <<1800, 1500, 3>>, <<3100, 2100, 1>>,
     <<MAX_WIDTH_MM + 100, 2100, 1>>, <<2400, MAX_DROP_MM + 1, 1>>,
     <<2400, 2100, MAX_QTY + 1>>, <<2400, 2100, 0>>, <<0, 2100, 1>>}

EfLineIds == <<"L1", "L2", "L3">>

EfLine(k, shape) ==
    [line_id |-> EfLineIds[k], width_mm |-> shape[1], drop_mm |-> shape[2],
     qty |-> shape[3]]

RECURSIVE EfLineLists(_)
\* the requests of k lines
EfLineLists(k) ==
    IF k = 0 THEN {<<>>}
    ELSE {Append(s, EfLine(k, shape)) : s \in EfLineLists(k - 1), shape \in EfLineShapes}

\* available_widths_mm as the client sends it
EfWidthLists ==
    {<<>>, <<1900, 2050, 2400, 3000>>, <<1900, 2050>>, <<3200, 2400, 3200>>,
     <<3300>>, <<0, 3000>>}

InitEfficiency ==
    /\ LayoutIdle
    /\ MarkersIdle
    /\ TubesIdle
    /\ WorkersIdle
    /\ FnIdle
    /\ ef_pc = "request"
    /\ \/ req_lines \in UNION {EfLineLists(k) : k \in 0..MaxLines}
       \/ req_lines = Repeat(EfLine(1, <<2400, 2100, 1>>), MAX_LINES + 1)
    /\ req_widths \in EfWidthLists
    /\ api_status = 0
    /\ ef_roll_width = 0
    /\ ef_next = 0
    /\ ef_layouts = <<>>
    /\ ef_results = <<>>
    /\ ef_totals = [eff_pct |-> 0]
    /\ ef_error = "none"
    /\ ef_pack_calls = 0

\* the body is parsed into EfficiencyRequest, requests.py lines 8-48; a body the
\* model refuses is answered 422 by the framework before the handler runs
ApiParse ==
    /\ ef_pc = "request"
    /\ IF BodyValid(req_lines, req_widths)
       THEN /\ req_widths' = NormalizeWidths(req_widths)
            /\ ef_pc' = "handler"
            /\ UNCHANGED api_status
       ELSE /\ api_status' = 422
            /\ ef_pc' = "done"
            /\ UNCHANGED req_widths
    /\ UNCHANGED <<req_lines, ef_roll_width, ef_next, ef_layouts, ef_results,
                   ef_totals, ef_error, ef_pack_calls>>
    /\ UNCHANGED <<layVars, mkVars, tbVars, wkVars, fnVars>>

\* waste_efficiency.py lines 81-89: the line count, then the call of the engine
ApiCheckLines ==
    /\ ef_pc = "handler"
    /\ IF Len(req_lines) > MAX_LINES
       THEN api_status' = 400 /\ ef_pc' = "done"
       ELSE ef_pc' = "engine" /\ UNCHANGED api_status
    /\ UNCHANGED <<req_lines, req_widths, ef_roll_width, ef_next, ef_layouts,
                   ef_results, ef_totals, ef_error, ef_pack_calls>>
    /\ UNCHANGED <<layVars, mkVars, tbVars, wkVars, fnVars>>

\* compute_efficiency, lines 1099-1139: the empty fast path, else the roll width
EfStart ==
    /\ ef_pc = "engine"
    /\ IF req_lines = <<>>
       THEN /\ ef_results' = <<>>
            /\ ef_totals' = EmptyTotals
            /\ ef_pc' = "wrap"
            /\ UNCHANGED ef_roll_width
       ELSE /\ ef_roll_width' = SelectRollWidth(req_lines, req_widths)
            /\ ef_pc' = "lines"
            /\ UNCHANGED <<ef_results, ef_totals>>
    /\ UNCHANGED <<req_lines, req_widths, api_status, ef_next, ef_layouts,
                   ef_error, ef_pack_calls>>
    /\ UNCHANGED <<layVars, mkVars, tbVars, wkVars, fnVars>>

\* one iteration of the loop of compute_layout_per_line, lines 378-416
EfPackLine ==
    /\ ef_pc = "lines"
    /\ ef_next < Len(req_lines)
    /\ LET r == PackLine(req_lines, ef_next + 1, ef_roll_width)
       IN  /\ ef_pack_calls' = ef_pack_calls + (IF r.called THEN 1 ELSE 0)
           /\ IF r.error # "none"
              THEN /\ ef_error' = r.error
                   /\ ef_pc' = "raised"
                   /\ UNCHANGED <<ef_next, ef_layouts>>
              ELSE /\ ef_layouts' = Append(ef_layouts, r.line)
                   /\ ef_next' = ef_next + 1
                   /\ UNCHANGED <<ef_error, ef_pc>>
    /\ UNCHANGED <<req_lines, req_widths, api_status, ef_roll_width, ef_results,
                   ef_totals>>
    /\ UNCHANGED <<layVars, mkVars, tbVars, wkVars, fnVars>>

\* compute_efficiency, lines 1142-1193: the per-line results and the totals
EfTotals ==
    /\ ef_pc = "lines"
    /\ ef_next = Len(req_lines)
    /\ ef_results' = [i \in 1..Len(ef_layouts) |-> LineResult(req_lines, ef_layouts[i])]
    /\ ef_totals' = Totals(ef_layouts)
    /\ ef_pc' = "wrap"
    /\ UNCHANGED <<req_lines, req_widths, api_status, ef_roll_width, ef_next,
                   ef_layouts, ef_error, ef_pack_calls>>
    /\ UNCHANGED <<layVars, mkVars, tbVars, wkVars, fnVars>>

\* engine_client.py lines 42-61 and waste_efficiency.py lines 89-98: the response
\* models are built; a missing field raises a validation error of the model
ApiRespond ==
    /\ ef_pc = "wrap"
    /\ IF TotalsFields \subseteq DOMAIN ef_totals
       THEN /\ api_status' = 200
            /\ ef_pc' = "done"
            /\ UNCHANGED ef_error
       ELSE /\ ef_error' = "ValidationError"
            /\ ef_pc' = "raised"
            /\ UNCHANGED api_status
    /\ UNCHANGED <<req_lines, req_widths, ef_roll_width, ef_next, ef_layouts,
                   ef_results, ef_totals, ef_pack_calls>>
    /\ UNCHANGED <<layVars, mkVars, tbVars, wkVars, fnVars>>

\* waste_efficiency.py lines 108-117: any exception other than HTTPException
ApiServerError ==
    /\ ef_pc = "raised"
    /\ api_status' = 500
    /\ ef_pc' = "done"
    /\ UNCHANGED <<req_lines, req_widths, ef_roll_width, ef_next, ef_layouts,
                   ef_results, ef_totals, ef_error, ef_pack_calls>>
    /\ UNCHANGED <<layVars, mkVars, tbVars, wkVars, fnVars>>

NextEfficiency ==
    \/ ApiParse
    \/ ApiCheckLines
    \/ EfStart
    \/ EfPackLine
    \/ EfTotals
    \/ ApiRespond
    \/ ApiServerError

SpecEfficiency == InitEfficiency /\ [][NextEfficiency]_vars

-----------------------------------------------------------------------------
(* Properties of compute_efficiency and of the endpoint *)

\* compute_efficiency was entered for the request
EngineEntered ==
    \/ ef_pc \in {"lines", "raised", "wrap"}
    \/ ef_pc = "done" /\ api_status \in {200, 500}

CandidateSet == {req_widths[i] : i \in 1..Len(req_widths)}
LargestLineWidth ==
    CHOOSE m \in {req_lines[i].width_mm : i \in 1..Len(req_lines)} :
        \A i \in 1..Len(req_lines) : req_lines[i].width_mm <= m
FittingCandidates == {c \in CandidateSet : c >= LargestLineWidth}

\* C15: every line of a call is packed on one roll width: the smallest candidate
\* >= the largest line width when one fits; the largest candidate when none fits,
\* and the call then ends with a validation error; max(largest line width, 3000)
\* when no candidates are given.
C15_OneRollWidthPerCall ==
    (EngineEntered /\ req_lines # <<>>) =>
        /\ \A i \in 1..Len(ef_layouts) : ef_layouts[i].roll_width_mm = ef_roll_width
        /\ \A i \in 1..Len(ef_results) : ef_results[i].roll_width_mm = ef_roll_width
        /\ FittingCandidates # {} =>
              /\ ef_roll_width \in FittingCandidates
              /\ \A c \in FittingCandidates : ef_roll_width <= c
        /\ (CandidateSet # {} /\ FittingCandidates = {}) =>
              /\ ef_roll_width \in CandidateSet
              /\ \A c \in CandidateSet : c <= ef_roll_width
              /\ ef_pc # "wrap" /\ api_status # 200
              /\ ef_pc \in {"raised", "done"} => ef_error = "ValueError"
        /\ CandidateSet = {} =>
              /\ ef_roll_width >= LargestLineWidth
              /\ ef_roll_width >= DEFAULT_ROLL_WIDTH
              /\ ef_roll_width \in {LargestLineWidth, DEFAULT_ROLL_WIDTH}

\* two lines packed on the smallest fitting candidate, which is not the largest
\* candidate
C15_Witness ==
    /\ ef_pc = "done" /\ api_status = 200
    /\ Len(ef_results) = 2
    /\ FittingCandidates # {}
    /\ \E c \in CandidateSet : c > ef_roll_width
    /\ \E c \in CandidateSet : c < ef_roll_width

\* C19: with an empty list of lines compute_efficiency returns no results and
\* totals with eff_pct = 0, waste_pct = 100 and zero areas, and the packer is
\* never called.
C19_EmptyLinesGiveEmptyTotals ==
    (EngineEntered /\ req_lines = <<>>) =>
        /\ ef_results = <<>>
        /\ ef_totals.eff_pct = 0
        /\ ef_totals.waste_pct = 100 * 100
        /\ ef_totals.total_area_m2 = 0
        /\ ef_totals.total_used_area_m2 = 0
        /\ ef_totals.total_waste_area_m2 = 0
        /\ ef_pack_calls = 0
        /\ ef_layouts = <<>>

\* compute_efficiency has returned for a request without lines
C19_Witness ==
    /\ ef_pc = "wrap"
    /\ req_lines = <<>>
    /\ ef_totals = EmptyTotals

\* C20: every input-validation failure is answered with a 4xx status: a request
\* of more than 1000 lines before any pack call, and a validation error raised by
\* the engine as well.
C20_ValidationFailuresAre4xx ==
    ef_pc = "done" =>
        /\ Len(req_lines) > MAX_LINES =>
              api_status \in 400..499 /\ ef_pack_calls = 0
        /\ ef_error = "ValueError" => api_status \in 400..499
        /\ ~BodyValid(req_lines, req_widths) => api_status \in 400..499

-----------------------------------------------------------------------------
(* dedupe_patterns called on any list of tubes *)

MaxTubes == 3

\* the cut lists of a tube, in cut order
PatternPieces == {<<3>>, <<4>>, <<6>>, <<3, 3>>, <<3, 4>>, <<4, 3>>, <<4, 4>>}

\* the TubeCut of a cut list on a stock of 10 with kerf 0
PatternTubes ==
    {[pieces_mm |-> ps, used_mm |-> SeqSum(ps), waste_mm |-> 10 - SeqSum(ps)] :
        ps \in PatternPieces}

InitPatterns ==
    /\ LayoutIdle
    /\ MarkersIdle
    /\ TubesIdle
    /\ EfficiencyIdle
    /\ WorkersIdle
    /\ fn_pc = "call"
    /\ fn_args \in SeqsUpTo(PatternTubes, MaxTubes)
    /\ fn_result = <<>>

\* dedupe_patterns(tubes), lines 961-992
DedupeCall ==
    /\ fn_pc = "call"
    /\ fn_result' = DedupePatterns(fn_args)
    /\ fn_pc' = "returned"
    /\ UNCHANGED fn_args
    /\ UNCHANGED <<layVars, mkVars, tbVars, efVars, wkVars>>

NextPatterns == DedupeCall

SpecPatterns == InitPatterns /\ [][NextPatterns]_vars

\* the two sequences hold the same values the same number of times
SameMultiset(a, b) ==
    /\ Len(a) = Len(b)
    /\ \A v \in {a[i] : i \in 1..Len(a)} \cup {b[i] : i \in 1..Len(b)} :
          Cardinality({i \in 1..Len(a) : a[i] = v})
             = Cardinality({i \in 1..Len(b) : b[i] = v})

\* the input tubes that have the pieces of the key
TubesOfKey(key) == {k \in 1..Len(fn_args) : SameMultiset(fn_args[k].pieces_mm, key)}

\* C16: dedupe_patterns returns one pattern per distinct multiset of pieces: every
\* key is sorted, keys are pairwise distinct, each count is the number of tubes
\* with the key and the counts sum to the number of tubes, the sample is the
\* first input tube with the key, and the patterns are ordered by count
\* descending, then by sum of the key descending.
C16_PatternsPartitionTubes ==
    fn_pc = "returned" =>
        LET ps == fn_result
        IN  /\ \A k \in 1..Len(ps) :
                  /\ \A i \in 1..(Len(ps[k].key) - 1) : ps[k].key[i] <= ps[k].key[i + 1]
                  /\ TubesOfKey(ps[k].key) # {}
                  /\ ps[k].count = Cardinality(TubesOfKey(ps[k].key))
                  /\ \A t \in TubesOfKey(ps[k].key) :
                        (\A u \in TubesOfKey(ps[k].key) : t <= u)
                           => ps[k].sample = fn_args[t]
            /\ \A j, k \in 1..Len(ps) : ps[j].key = ps[k].key => j = k
            /\ \A t \in 1..Len(fn_args) : \E k \in 1..Len(ps) : t \in TubesOfKey(ps[k].key)
            /\ SeqSum([k \in 1..Len(ps) |-> ps[k].count]) = Len(fn_args)
            /\ \A j, k \in 1..Len(ps) :
                  j < k => \/ ps[j].count > ps[k].count
                           \/ /\ ps[j].count = ps[k].count
                              /\ SeqSum(ps[j].key) >= SeqSum(ps[k].key)

\* three tubes, two of them with the same pieces in another cut order and
\* appearing after a tube of its own pattern: the patterns are reordered
C16_Witness ==
    /\ fn_pc = "returned"
    /\ Len(fn_args) = 3
    /\ Len(fn_result) = 2
    /\ fn_result[1].count = 2
    /\ fn_result[1].sample # fn_args[1]
    /\ \E t \in TubesOfKey(fn_result[1].key) : fn_args[t] # fn_result[1].sample

-----------------------------------------------------------------------------
(* build_markers_from_layout run on one of its own markers *)

\* build_markers_from_layout on an empty cache, lines 580-736: the list returned
BuildMarkers(ps, batch_id, roll_width, roll_length) ==
    IF ps = <<>> THEN <<>>
    ELSE Markers(ProcessedBuckets(Buckets(ps, roll_length), roll_length),
                 batch_id, roll_width, roll_length)

\* the rects of a marker (lines 713-723) handed back as a list of Placement
RectsAsPlacements(marker) ==
    [i \in 1..Len(marker.rects) |->
        Placement(marker.rects[i].x, marker.rects[i].y, marker.rects[i].w,
                  marker.rects[i].h, marker.rects[i].level, marker.rects[i].item_id)]

NoMarker == [idx |-> 0, batch_id |-> 0, roll_width_mm |-> 0, length_mm |-> 0, rects |-> <<>>]

InitFeedback ==
    /\ LayoutIdle
    /\ MarkersIdle
    /\ TubesIdle
    /\ EfficiencyIdle
    /\ WorkersIdle
    /\ fn_pc = "call"
    /\ fn_args \in [placements : MkInputs, roll_length : MkRollLengths, source : {NoMarker}]
    /\ fn_result = <<>>

\* build_markers_from_layout, lines 551-750, on the module cache `cache`: the
\* list returned and the cache left behind (a hit returns the stored list, an
\* empty layout returns before the store of line 748)
BuildMarkersCached(cache, ps, batch_id, roll_width, roll_length) ==
    LET cache_key == MakeCacheKey(ps, roll_width)
        markers == BuildMarkers(ps, batch_id, roll_width, roll_length)
    IN  IF cache_key \in DOMAIN cache
        THEN [markers |-> cache[cache_key], cache |-> cache]
        ELSE IF ps = <<>>
        THEN [markers |-> <<>>, cache |-> cache]
        ELSE [markers |-> markers, cache |-> (cache_key :> markers) @@ cache]

\* the layout is segmented (the cache is empty) and the result is cached
SegmentCall ==
    /\ fn_pc = "call"
    /\ LET r == BuildMarkersCached(marker_cache, fn_args.placements, 1, 3600,
                                   fn_args.roll_length)
       IN  /\ fn_result' = r.markers
           /\ marker_cache' = r.cache
    /\ fn_pc' = "segmented"
    /\ UNCHANGED fn_args
    /\ UNCHANGED <<mk_pc, mk_placements, mk_roll_width, mk_batch_id, mk_roll_length,
                   mk_buckets, mk_processed, mk_markers, mk_cache_was_empty, mk_calls>>
    /\ UNCHANGED <<layVars, tbVars, efVars, wkVars>>

\* clear_marker_cache, lines 753-756, before a marker is handed back
FeedClearCache ==
    /\ fn_pc = "segmented"
    /\ marker_cache' = <<>>
    /\ fn_pc' = "cleared"
    /\ UNCHANGED <<fn_args, fn_result>>
    /\ UNCHANGED <<mk_pc, mk_placements, mk_roll_width, mk_batch_id, mk_roll_length,
                   mk_buckets, mk_processed, mk_markers, mk_cache_was_empty, mk_calls>>
    /\ UNCHANGED <<layVars, tbVars, efVars, wkVars>>

\* one of the markers is segmented again, with the same roll length, and the
\* result is cached
FeedBackCall ==
    /\ fn_pc = "cleared"
    /\ \E k \in 1..Len(fn_result) :
          LET r == BuildMarkersCached(marker_cache, RectsAsPlacements(fn_result[k]),
                                      1, 3600, fn_args.roll_length)
          IN  /\ fn_args' = [placements |-> RectsAsPlacements(fn_result[k]),
                             roll_length |-> fn_args.roll_length,
                             source |-> fn_result[k]]
              /\ fn_result' = r.markers
              /\ marker_cache' = r.cache
    /\ fn_pc' = "returned"
    /\ UNCHANGED <<mk_pc, mk_placements, mk_roll_width, mk_batch_id, mk_roll_length,
                   mk_buckets, mk_processed, mk_markers, mk_cache_was_empty, mk_calls>>
    /\ UNCHANGED <<layVars, tbVars, efVars, wkVars>>

NextFeedback ==
    \/ SegmentCall
    \/ FeedClearCache
    \/ FeedBackCall

SpecFeedback == InitFeedback /\ [][NextFeedback]_vars

\* C17: segmenting the rects of a returned marker again, with the same roll
\* length and on an empty cache, gives one marker of the same length.
C17_SegmentationIdempotent ==
    fn_pc = "returned" =>
        /\ Len(fn_result) = 1
        /\ fn_result[1].length_mm = fn_args.source.length_mm

\* the distance from the leftmost start to the rightmost end of a placement list
XExtent(ps) ==
    SeqMax([i \in 1..Len(ps) |-> ps[i].x + ps[i].h]) - SeqMin([i \in 1..Len(ps) |-> ps[i].x])

\* the item_ids of the rects of a marker
RectIds(marker) == {marker.rects[i].item_id : i \in 1..Len(marker.rects)}

\* C18: a placement list of pieces no longer than 5900 whose X-extent is 11800,
\* segmented with roll_length 5900, gives exactly two markers, each of length at
\* most 5900, and every item_id is in exactly one rect of exactly one marker.
C18_TwoRollLengthsGiveTwoMarkers ==
    ( /\ fn_pc = "segmented"
      /\ fn_args.placements # <<>>
      /\ fn_args.roll_length = 5900
      /\ \A i \in 1..Len(fn_args.placements) : fn_args.placements[i].h <= 5900
      /\ XExtent(fn_args.placements) = 11800 )
    => /\ Len(fn_result) = 2
       /\ \A k \in 1..Len(fn_result) :
             /\ fn_result[k].length_mm <= 5900
             /\ Cardinality(RectIds(fn_result[k])) = Len(fn_result[k].rects)
       /\ \A k, l \in 1..Len(fn_result) :
             k # l => RectIds(fn_result[k]) \cap RectIds(fn_result[l]) = {}
       /\ UNION {RectIds(fn_result[k]) : k \in 1..Len(fn_result)}
             = {fn_args.placements[i].item_id : i \in 1..Len(fn_args.placements)}

-----------------------------------------------------------------------------
(* The endpoint on a request without lines *)

\* C21: a request the request model accepts and whose lines list is empty is
\* answered 200 with no results and totals.eff_pct = 0.
C21_EmptyLinesAnswered200 ==
    (ef_pc = "done" /\ req_lines = <<>> /\ api_status # 422)
        => /\ api_status = 200
           /\ ef_results = <<>>
           /\ ef_totals.eff_pct = 0

-----------------------------------------------------------------------------
(* The first pass of compute_layout, piece by piece *)

\* the order the pieces are taken in: area, then width, then drop, descending
TakenInOrder(s) ==
    \A i, j \in 1..Len(s) :
        i < j =>
            \/ s[i][1] * s[i][2] > s[j][1] * s[j][2]
            \/ /\ s[i][1] * s[i][2] = s[j][1] * s[j][2]
               /\ \/ s[i][1] > s[j][1]
                  \/ s[i][1] = s[j][1] /\ s[i][2] >= s[j][2]

\* what the piece of width w needs on shelf k, and what it would leave there,
\* when g is the gap between two pieces of a shelf
NeedOn(k, w, g) == IF shelves[k].used_y = 0 THEN w ELSE g + w
LeftOn(k, w, g) == roll_width_mm - shelves[k].used_y - NeedOn(k, w, g)

\* the shelves of the current state the piece <<w, h>> qualifies for
Qualifying(w, h, g) ==
    {k \in 1..Len(shelves) :
        shelves[k].height >= h /\ NeedOn(k, w, g) <= roll_width_mm - shelves[k].used_y}

\* a step of the first pass follows the rule for the gap g: the next piece of the
\* area/width/drop-descending order goes to the qualifying shelf that leaves the
\* least, the lowest index winning ties; a shelf is opened (at the previous
\* x0 + height + g, or 0; height h; piece at y = 0) only when no shelf qualifies
BestFitStep(g) ==
    LET w == sorted_blinds[next_i + 1][1]
        h == sorted_blinds[next_i + 1][2]
        new == placements'[Len(placements')]
        n == Len(shelves)
    IN  /\ TakenInOrder(sorted_blinds)
        /\ Len(placements') = Len(placements) + 1
        /\ new.w = w /\ new.h = h
        /\ IF Qualifying(w, h, g) # {}
           THEN /\ Len(shelves') = n
                /\ new.level + 1 \in Qualifying(w, h, g)
                /\ \A j \in Qualifying(w, h, g) :
                      \/ LeftOn(new.level + 1, w, g) < LeftOn(j, w, g)
                      \/ /\ LeftOn(new.level + 1, w, g) = LeftOn(j, w, g)
                         /\ new.level + 1 <= j
                /\ new.x = shelves[new.level + 1].x0
                /\ \A j \in 1..n :
                      shelves'[j] = IF j = new.level + 1
                                    THEN [shelves[j] EXCEPT !.used_y = @ + NeedOn(j, w, g)]
                                    ELSE shelves[j]
           ELSE /\ shelves' = Append(shelves,
                      [x0 |-> IF n = 0 THEN 0
                              ELSE shelves[n].x0 + shelves[n].height + g,
                       height |-> h, used_y |-> w])
                /\ new.level = n
                /\ new.x = shelves'[n + 1].x0
                /\ new.y = 0

\* the gap the first pass works with: a negative gap_mm counts as 0
GapUsed == IF gap_mm > 0 THEN gap_mm ELSE 0

-----------------------------------------------------------------------------
(* _compact_layout as a function, on layouts of any shape *)

MaxShelves == 3             \* shelves of a layout handed to _compact_layout
CompactRoll == 4            \* roll_width_mm of those layouts

\* the widths of the pieces of one shelf, across the roll, and the shelf heights
ShelfWidths == {<<1>>, <<2>>, <<3>>, <<1, 1>>}
ShelfHeights == {1, 2}

RECURSIVE UsedY(_, _)
\* used_y of a shelf whose pieces have the widths ws, laid with the gap between
UsedY(ws, gap) ==
    IF Len(ws) = 1 THEN ws[1]
    ELSE UsedY(SubSeq(ws, 1, Len(ws) - 1), gap) + gap + ws[Len(ws)]

RECURSIVE LayoutOfShelves(_, _)
\* the placements and shelves _pack_ffdh leaves for shelves of the given kinds
\* <<height, widths>>: x0 of lines 183, y of line 174, used_y of line 176
LayoutOfShelves(kinds, gap) ==
    IF kinds = <<>> THEN [p |-> <<>>, s |-> <<>>]
    ELSE LET before == LayoutOfShelves(SubSeq(kinds, 1, Len(kinds) - 1), gap)
             height == kinds[Len(kinds)][1]
             ws == kinds[Len(kinds)][2]
             x0 == NewShelfX0(before.s, gap)
             lvl == Len(before.s)
         IN  [p |-> before.p \o
                    [i \in 1..Len(ws) |->
                        Placement(x0, IF i = 1 THEN 0
                                      ELSE UsedY(SubSeq(ws, 1, i - 1), gap) + gap,
                                  ws[i], height, lvl, Len(before.p) + i - 1)],
              s |-> Append(before.s, [x0 |-> x0, height |-> height,
                                      used_y |-> UsedY(ws, gap)])]

RECURSIVE ShelfKindLists(_)
ShelfKindLists(k) ==
    IF k = 0 THEN {<<>>}
    ELSE {Append(s, <<h, ws>>) : s \in ShelfKindLists(k - 1),
                                 h \in ShelfHeights, ws \in ShelfWidths}

InitCompact ==
    /\ LayoutIdle
    /\ MarkersIdle
    /\ TubesIdle
    /\ EfficiencyIdle
    /\ WorkersIdle
    /\ fn_pc = "call"
    /\ \E kinds \in UNION {ShelfKindLists(k) : k \in 1..MaxShelves}, gap \in {0, 1} :
          fn_args = [placements |-> LayoutOfShelves(kinds, gap).p,
                     shelves |-> LayoutOfShelves(kinds, gap).s,
                     roll_width_mm |-> CompactRoll, gap_y |-> gap]
    /\ fn_result = [p |-> <<>>, s |-> <<>>]

\* _compact_layout(placements, shelves, roll_width_mm, gap_y), lines 212-282
CompactCall ==
    /\ fn_pc = "call"
    /\ fn_result' = CompactLayout(fn_args.placements, fn_args.shelves,
                                  fn_args.roll_width_mm, fn_args.gap_y)
    /\ fn_pc' = "returned"
    /\ UNCHANGED fn_args
    /\ UNCHANGED <<layVars, mkVars, tbVars, efVars, wkVars>>

NextCompact == CompactCall

SpecCompact == InitCompact /\ [][NextCompact]_vars

\* the layout handed in has two adjacent shelves of equal height whose pieces
\* fit side by side across the roll
HasMergeablePair(sh, roll, gap) ==
    \E k \in 1..(Len(sh) - 1) :
        /\ sh[k].height = sh[k + 1].height
        /\ sh[k].used_y + gap + sh[k + 1].used_y <= roll

\* C23: when _compact_layout merges shelves of a layout that satisfies the
\* packer invariants, every placement of the result has the x0 of the shelf
\* its level names, is not higher than that shelf, stays within the roll
\* width, and the pieces of a shelf do not overlap in Y.
C23_MergeKeepsInvariants ==
    ( /\ fn_pc = "returned"
      /\ PackInvariantsHold(fn_args.placements, fn_args.shelves, fn_args.roll_width_mm)
      /\ HasMergeablePair(fn_args.shelves, fn_args.roll_width_mm, fn_args.gap_y) )
    => LET ps == fn_result.p
           sh == fn_result.s
       IN  \A i \in 1..Len(ps) :
              /\ ps[i].level + 1 \in 1..Len(sh)
              /\ ps[i].x = sh[ps[i].level + 1].x0
              /\ ps[i].h <= sh[ps[i].level + 1].height
              /\ ps[i].y + ps[i].w <= fn_args.roll_width_mm
              /\ \A j \in 1..Len(ps) :
                    (j # i /\ ps[j].level = ps[i].level) =>
                        \/ ps[i].y + ps[i].w <= ps[j].y
                        \/ ps[j].y + ps[j].w <= ps[i].y

-----------------------------------------------------------------------------
(* The push rule of build_markers_from_layout *)

\* the buckets that hold the placement p
BucketsHolding(p) ==
    {m \in DOMAIN mk_buckets :
        \E i \in 1..Len(mk_buckets[m]) : mk_buckets[m][i] = p}

\* the markers of the returned list that hold a rect for the placement p, with
\* its w and h unchanged
MarkersHolding(p) ==
    {k \in 1..Len(mk_markers) :
        \E i \in 1..Len(mk_markers[k].rects) :
            /\ mk_markers[k].rects[i].item_id = p.item_id
            /\ mk_markers[k].rects[i].h = p.h
            /\ mk_markers[k].rects[i].w = p.w}

\* C24: a placement occupying [x, x+h) is assigned to the provisional marker
\* m = floor(x / roll_length) when x + h lies below the boundary (m+1)*roll_length
\* (x + h <= boundary - eps; the dimensions are whole millimetres), and is pushed
\* whole into m + 1 otherwise; every placement is in exactly one bucket and, in
\* the returned list, in exactly one marker with its full h.
C24_NoRectIsCut ==
    /\ mk_pc \in {"split", "finalize"} =>
          \A i \in 1..Len(mk_placements) :
             LET p == mk_placements[i]
                 m == CHOOSE k \in 0..(p.x + 1) :
                         k * mk_roll_length <= p.x /\ p.x < (k + 1) * mk_roll_length
             IN  BucketsHolding(p) =
                    IF p.x + p.h < (m + 1) * mk_roll_length THEN {m} ELSE {m + 1}
    /\ mk_pc \in {"store", "done"} =>
          \A i \in 1..Len(mk_placements) :
             Cardinality(MarkersHolding(mk_placements[i])) = 1

\* a layout was segmented in which one piece starts in marker 0 and runs over
\* the boundary, so that it is pushed, while another one stays in marker 0
C24_Witness ==
    /\ mk_pc = "done"
    /\ mk_cache_was_empty
    /\ DOMAIN mk_buckets = {0, 1}
    /\ \E i, j \in 1..Len(mk_placements) :
          /\ mk_placements[i].x < mk_roll_length
          /\ mk_placements[i].x + mk_placements[i].h > mk_roll_length
          /\ mk_placements[j].x + mk_placements[j].h < mk_roll_length
    /\ Len(mk_markers) = 2

-----------------------------------------------------------------------------
(* pack_bfd and improve_pair_swaps called on any descending piece list *)

MaxPieces == 4              \* longest piece list handed to pack_bfd
PackStock == 10             \* stock_length_mm of those calls
PackWidths == 1..9
PackKerfs == {0, 1}

RECURSIVE DescLists(_)
\* the piece lists of length k that are sorted descending
DescLists(k) ==
    IF k = 0 THEN {<<>>}
    ELSE {Append(sv[1], sv[2]) :
            sv \in {x \in DescLists(k - 1) \X PackWidths :
                       x[1] = <<>> \/ x[2] <= x[1][Len(x[1])]}}

\* pack_bfd(pieces, stock_length_mm, kerf_mm) is entered, lines 824-827
InitPack ==
    /\ LayoutIdle
    /\ MarkersIdle
    /\ EfficiencyIdle
    /\ WorkersIdle
    /\ FnIdle
    /\ tb_pc = "pack"
    /\ tb_items = <<>>
    /\ tb_stock = PackStock
    /\ tb_kerf \in PackKerfs
    /\ tb_sorted \in UNION {DescLists(k) : k \in 1..MaxPieces}
    /\ tb_pieces = tb_sorted
    /\ tb_infeasible = <<>>
    /\ tb_next = 0
    /\ tb_open = <<>>
    /\ tb_tubes = <<>>
    /\ tb_plan = EmptyPlan

NextPack ==
    \/ TubePlace
    \/ TubePacked
    \/ TubeImprove

SpecPack == InitPack /\ [][NextPack]_vars

\* the open tubes the piece p fits in: used + p + kerf <= stock_length, the kerf
\* omitted for an empty tube
FitsIn(p) ==
    {k \in 1..Len(tb_open) :
        tb_open[k].used + p + (IF tb_open[k].pieces = <<>> THEN 0 ELSE tb_kerf)
            <= tb_stock}

\* C25: every step of pack_bfd puts the next piece p into the tube that, among
\* the open tubes p fits in, has the smallest remaining length, the earliest
\* opened winning ties, and leaves the other tubes alone; it opens a new tube
\* holding only p exactly when p fits in no open tube.
C25_BestFitDecreasing ==
    [][(tb_pc = "pack" /\ tb_next' = tb_next + 1) =>
        LET p == tb_sorted[tb_next + 1]
            n == Len(tb_open)
        IN  IF FitsIn(p) # {}
            THEN /\ Len(tb_open') = n
                 /\ \E b \in FitsIn(p) :
                       /\ \A j \in FitsIn(p) :
                             \/ tb_stock - tb_open[b].used < tb_stock - tb_open[j].used
                             \/ /\ tb_open[b].used = tb_open[j].used
                                /\ b <= j
                       /\ tb_open'[b].pieces = Append(tb_open[b].pieces, p)
                       /\ \A j \in 1..n : j # b => tb_open'[j] = tb_open[j]
            ELSE /\ Len(tb_open') = n + 1
                 /\ tb_open'[n + 1].pieces = <<p>>
                 /\ \A j \in 1..n : tb_open'[j] = tb_open[j]
    ]_vars

\* the last piece went into the second tube although it fitted in the first
\* one too: the second tube had less room left
C25_Witness ==
    /\ tb_pc = "pack"
    /\ tb_next = Len(tb_sorted)
    /\ Len(tb_open) = 2
    /\ Len(tb_open[2].pieces) = 3
    /\ Len(tb_open[1].pieces) = 1
    /\ tb_open[1].used + tb_kerf + tb_sorted[tb_next] <= tb_stock

-----------------------------------------------------------------------------
(* improve_pair_swaps called on any valid list of tubes, pass by pass *)

MaxPlanTubes == 4           \* longest tube list handed to improve_pair_swaps
ImproveStock == 10          \* stock_length_mm of those calls

\* the cut lists of the tubes handed in: none is empty, none exceeds the stock
ImprovePieces == {<<2>>, <<3>>, <<6>>, <<8>>, <<3, 3>>, <<4, 4>>}
ImproveKerfs == {0, 1}
ImprovePasses == {1, 2}

\* the TubeCut of a cut list, lines 950-956
TubeCutOf(pieces, stock, kerf) ==
    [pieces_mm |-> pieces, used_mm |-> CalcUsed(pieces, kerf),
     waste_mm |-> stock - CalcUsed(pieces, kerf)]

InitImprove ==
    /\ LayoutIdle
    /\ MarkersIdle
    /\ TubesIdle
    /\ EfficiencyIdle
    /\ WorkersIdle
    /\ fn_pc = "call"
    /\ \E ts \in SeqsUpTo(ImprovePieces, MaxPlanTubes), kerf \in ImproveKerfs,
          mp \in ImprovePasses :
          fn_args = [tubes |-> [k \in 1..Len(ts) |-> TubeCutOf(ts[k], ImproveStock, kerf)],
                     stock_length_mm |-> ImproveStock, kerf_mm |-> kerf,
                     max_passes |-> mp]
    /\ fn_result = [mutable_tubes |-> <<>>, pass_num |-> 0, stopped |-> FALSE,
                    tubes |-> <<>>]

\* lines 893-903: a list of at most one tube is returned as it is; otherwise
\* the cut lists are copied
ImproveEnter ==
    /\ fn_pc = "call"
    /\ IF Len(fn_args.tubes) <= 1
       THEN /\ fn_result' = [fn_result EXCEPT !.tubes = fn_args.tubes]
            /\ fn_pc' = "returned"
       ELSE /\ fn_result' = [fn_result EXCEPT !.mutable_tubes =
                               [k \in 1..Len(fn_args.tubes) |-> fn_args.tubes[k].pieces_mm]]
            /\ fn_pc' = "passes"
    /\ UNCHANGED fn_args
    /\ UNCHANGED <<layVars, mkVars, tbVars, efVars, wkVars>>

\* one pass of the loop of lines 905-944
ImproveOnePass ==
    /\ fn_pc = "passes"
    /\ fn_result.pass_num < fn_args.max_passes
    /\ ~fn_result.stopped
    /\ fn_result' = [fn_result EXCEPT
          !.mutable_tubes = ImprovePass(fn_result.mutable_tubes,
                                        fn_args.stock_length_mm, fn_args.kerf_mm),
          !.pass_num = fn_result.pass_num + 1,
          !.stopped = ~PassImproves(fn_result.mutable_tubes,
                                    fn_args.stock_length_mm, fn_args.kerf_mm)]
    /\ UNCHANGED <<fn_pc, fn_args>>
    /\ UNCHANGED <<layVars, mkVars, tbVars, efVars, wkVars>>

\* lines 946-958: the loop has ended (range(max_passes) is used up, at once when
\* max_passes <= 0, or a pass improved nothing), the TubeCut list is rebuilt
ImproveReturn ==
    /\ fn_pc = "passes"
    /\ fn_result.pass_num >= fn_args.max_passes \/ fn_result.stopped
    /\ fn_result' = [fn_result EXCEPT !.tubes =
          LET mt == SelectSeq(fn_result.mutable_tubes, LAMBDA t : t # <<>>)
          IN  [k \in 1..Len(mt) |->
                  TubeCutOf(mt[k], fn_args.stock_length_mm, fn_args.kerf_mm)]]
    /\ fn_pc' = "returned"
    /\ UNCHANGED fn_args
    /\ UNCHANGED <<layVars, mkVars, tbVars, efVars, wkVars>>

NextImprove ==
    \/ ImproveEnter
    \/ ImproveOnePass
    \/ ImproveReturn

SpecImprove == InitImprove /\ [][NextImprove]_vars

\* the sequence s without its element at position i
Without(s, i) == SubSeq(s, 1, i - 1) \o SubSeq(s, i + 1, Len(s))

\* length used by a cut list: the pieces and one kerf between neighbours
UsedBy(pieces, kerf) == SeqSum(pieces) + kerf * (Len(pieces) - 1)

\* C26: a pass of improve_pair_swaps either accepts nothing, and is the last
\* one, or moves the single piece of a one-piece tube i into a later tube j
\* that stays within stock_length, and tube i disappears; there are at most
\* max_passes passes; the result has no empty tube, every tube within
\* stock_length, and between |tubes| - max_passes and |tubes| tubes.
C26_OnlyEmptyingMoves ==
    [][ /\ (fn_pc = "passes" /\ fn_pc' = "passes") =>
              LET mt == fn_result.mutable_tubes
                  after == fn_result'.mutable_tubes
              IN  /\ ~fn_result.stopped
                  /\ fn_result'.pass_num = fn_result.pass_num + 1
                  /\ fn_result'.pass_num <= fn_args.max_passes
                  /\ \/ after = mt /\ fn_result'.stopped
                     \/ /\ ~fn_result'.stopped
                        /\ \E i, j \in 1..Len(mt) :
                              /\ i < j
                              /\ Len(mt[i]) = 1
                              /\ UsedBy(Append(mt[j], mt[i][1]), fn_args.kerf_mm)
                                    <= fn_args.stock_length_mm
                              /\ after = Without([mt EXCEPT ![j] = Append(mt[j], mt[i][1])], i)
        /\ fn_pc' = "returned" =>
              LET res == fn_result'.tubes
              IN  /\ \A k \in 1..Len(res) :
                        /\ res[k].pieces_mm # <<>>
                        /\ UsedBy(res[k].pieces_mm, fn_args.kerf_mm) <= fn_args.stock_length_mm
                        /\ res[k].used_mm = UsedBy(res[k].pieces_mm, fn_args.kerf_mm)
                  /\ Len(res) <= Len(fn_args.tubes)
                  /\ Len(res) >= Len(fn_args.tubes) - fn_args.max_passes
    ]_vars

\* two passes, each of which emptied a tube
C26_Witness ==
    /\ fn_pc = "returned"
    /\ fn_args.max_passes = 2
    /\ fn_result.pass_num = 2
    /\ Len(fn_result.tubes) = Len(fn_args.tubes) - 2

\* the passes taken one by one give what the loop of lines 905-944 gives
ImproveStepsAgree ==
    fn_pc = "returned" =>
        fn_result.tubes = ImprovePairSwaps(fn_args.tubes, fn_args.stock_length_mm,
                                           fn_args.kerf_mm, fn_args.max_passes)

-----------------------------------------------------------------------------
(* validate_pieces inside compute_tube_plan *)

\* the kinds of item of the caller's list
Skipped(i) == tb_items[i][2] <= 0 \/ tb_items[i][1] <= 0
TooLong(i) == ~Skipped(i) /\ tb_items[i][1] > tb_stock
Kept(i) == ~Skipped(i) /\ ~TooLong(i)

\* the number of pieces the items before item i contribute
PiecesBefore(i) ==
    SeqSum([k \in 1..(i - 1) |-> IF Kept(k) THEN tb_items[k][2] ELSE 0])

\* the number of too long items among the first i items
TooLongUpTo(i) == Cardinality({k \in 1..i : TooLong(k)})

\* the pieces and the infeasible entries are those the items call for
ValidatedAsStated(pieces, infeasible) ==
    /\ Len(pieces) = PiecesBefore(Len(tb_items) + 1)
    /\ \A i \in 1..Len(tb_items) :
          Kept(i) =>
             \A n \in 1..tb_items[i][2] : pieces[PiecesBefore(i) + n] = tb_items[i][1]
    /\ Len(infeasible) = TooLongUpTo(Len(tb_items))
    /\ \A i \in 1..Len(tb_items) :
          TooLong(i) => infeasible[TooLongUpTo(i)][1] = tb_items[i][1]

\* C27: validation never fails: a skipped item (qty <= 0 or width <= 0) gives
\* nothing, an item longer than the stock gives one infeasible entry and no
\* piece, every other item gives qty copies of its width, in input order; the
\* plan compute_tube_plan returns carries these infeasible entries.
C27_ValidationNeverFails ==
    /\ tb_pc \in {"start", "validated", "pack", "improve", "finish", "done"}
    /\ tb_pc = "start" => ENABLED TubeValidate
    /\ tb_pc = "validated" => ENABLED (TubeReturnEmpty \/ TubeSort)
    /\ tb_pc # "start" => ValidatedAsStated(tb_pieces, tb_infeasible)
    /\ tb_pc = "done" =>
          /\ tb_plan.infeasible_pieces = tb_infeasible
          /\ tb_plan.total_pieces = Len(tb_pieces)

\* a plan for a list with a kept item of two pieces, an item longer than the
\* stock ordered twice, and a skipped item
C27_Witness ==
    /\ tb_pc = "done"
    /\ \E i, j, k \in 1..Len(tb_items) :
          /\ Kept(i) /\ tb_items[i][2] = 2
          /\ TooLong(j) /\ tb_items[j][2] = 2
          /\ Skipped(k)
    /\ Len(tb_plan.infeasible_pieces) = 1
    /\ tb_plan.total_pieces = 2

-----------------------------------------------------------------------------
(* The compaction pass inside compute_layout *)

\* C28: inside compute_layout, with gap >= 0, the compaction pass changes
\* nothing: the placements, the number of shelves and the used length after
\* _compact_layout are those after _pack_ffdh.
C28_CompactionIsIdentity ==
    [][(lay_pc = "compact" /\ lay_pc' = "finish" /\ gap_mm >= 0) =>
          /\ placements' = placements
          /\ Len(shelves') = Len(shelves)
          /\ shelves'[Len(shelves')].x0 + shelves'[Len(shelves')].height
                = shelves[Len(shelves)].x0 + shelves[Len(shelves)].height
    ]_vars

\* the compaction has run on a layout with a gap between two pieces of one
\* shelf and with two adjacent shelves of equal height
C28_Witness ==
    /\ lay_pc = "finish"
    /\ gap_mm > 0
    /\ \E i, j \in 1..Len(placements) :
          i # j /\ placements[i].level = placements[j].level
    /\ \E k \in 1..(Len(shelves) - 1) : shelves[k].height = shelves[k + 1].height

-----------------------------------------------------------------------------
(* The pairwise improvement inside compute_tube_plan *)

\* C29: inside compute_tube_plan, with kerf >= 0, improve_pair_swaps returns
\* the tubes of pack_bfd unchanged, so num_tubes is the number of tubes
\* pack_bfd opened.
C29_ImprovementIsIdentity ==
    [][(tb_pc = "improve" /\ tb_pc' = "finish" /\ tb_kerf >= 0) =>
          /\ tb_tubes' = tb_tubes
          /\ Len(tb_tubes') = Len(tb_open)
    ]_vars

\* the improvement has run on a plan in which a tube of one piece stands
\* before another tube
C29_Witness ==
    /\ tb_pc = "finish"
    /\ tb_kerf > 0
    /\ \E i, j \in 1..Len(tb_tubes) :
          /\ i < j
          /\ Len(tb_tubes[i].pieces_mm) = 1
          /\ Len(tb_tubes[j].pieces_mm) >= 2

-----------------------------------------------------------------------------
(* compute_layout on the same pieces in another order *)

\* the orders a list of n pieces can be given in
Orders(n) == {f \in [1..n -> 1..n] : \A i, j \in 1..n : f[i] = f[j] => i = j}

\* the list s in the order f
InOrder(s, f) == [i \in 1..Len(s) |-> s[f[i]]]

\* C30: compute_layout returns the same placements (item_id and level
\* included), used length, utilization and level count for every order the
\* same pieces are given in, with the same roll width and gap.
C30_InputOrderIrrelevant ==
    (lay_pc = "done" /\ rep = 1) =>
        \A f \in Orders(Len(blinds)) :
            LET other == ComputeLayout(InOrder(blinds, f), roll_width_mm, gap_mm)
            IN  /\ other.error = "none"
                /\ other.result.placements = lay_result.placements
                /\ other.result.used_length_mm = lay_result.used_length_mm
                /\ other.result.utilization = lay_result.utilization
                /\ other.result.levels = lay_result.levels

\* a layout was returned for three pieces that were not given in the order of
\* the sort, two of them of equal area and different width
C30_Witness ==
    /\ lay_pc = "done" /\ rep = 1
    /\ Len(blinds) = 3
    /\ blinds # sorted_blinds
    /\ \E i, j \in 1..3 :
          /\ blinds[i][1] * blinds[i][2] = blinds[j][1] * blinds[j][2]
          /\ blinds[i][1] < blinds[j][1]
          /\ i < j

=============================================================================
